---- MODULE Spec2Model ----
(***************************************************************************)
(* PowerShell completion provider of the terminal suggest contribution     *)
(* (pwshCompletionProvider.ts): the request correlator, the handlers of    *)
(* the Completions / CompletionsPwshCommands sequences, the decoder and    *)
(* the normalizer.  Text is a sequence of one-character strings.           *)
(* The last sections model the chat setup contribution                     *)
(* (chatSetup.contribution.ts): the steps of ChatSetupController and the   *)
(* cancellation of ChatSetupRequests.resolve.                              *)
(***************************************************************************)
EXTENDS Integers, Sequences, FiniteSets, TLC

(* ------------------------------ bounds --------------------------------- *)

\* number of provideCompletions calls issued in one behaviour
MaxRequests == 2

\* largest reading of the millisecond clock (Date.now())
MaxTime == 1

\* number of ChatSetupController.setup runs in one behaviour
MaxRuns == 2

\* number of ChatSetupRequests.resolve runs in one behaviour, the one the
\* constructor starts included
MaxResolves == 2

(* ------------------------------ text ----------------------------------- *)

Undefined == [t |-> "undefined"]

SEMI == ";"

\* host default path separator (path.sep of a posix host)
sep == "/"

Includes(s, c) == \E i \in 1..Len(s) : s[i] = c

Min(a, b) == IF a < b THEN a ELSE b

Max(a, b) == IF a > b THEN a ELSE b

Clamp(n, len) == Max(0, Min(n, len))

\* String.prototype.substring(start, end): clamps both to [0, length] and
\* swaps them when start > end
Substring(s, start, end) ==
    LET a == Clamp(start, Len(s))
        b == Clamp(end, Len(s))
    IN  SubSeq(s, Min(a, b) + 1, Max(a, b))

\* String.prototype.slice(start) for start >= 0
Slice(s, start) == SubSeq(s, Min(start, Len(s)) + 1, Len(s))

\* index of the first c in s, 0 when there is none
IndexOf(s, c) ==
    IF Includes(s, c) THEN CHOOSE i \in 1..Len(s) : s[i] = c /\ \A j \in 1..(i - 1) : s[j] # c
    ELSE 0

RECURSIVE Split(_, _)
\* String.prototype.split(c)
Split(s, c) ==
    LET i == IndexOf(s, c)
    IN  IF i = 0 THEN <<s>>
        ELSE <<SubSeq(s, 1, i - 1)>> \o Split(SubSeq(s, i + 1, Len(s)), c)

Digits == <<"0", "1", "2", "3", "4", "5", "6", "7", "8", "9">>

IsDigit(c) == \E d \in 1..10 : Digits[d] = c

DigitValue(c) == (CHOOSE d \in 1..10 : Digits[d] = c) - 1

RECURSIVE DecimalValue(_)
DecimalValue(s) ==
    IF Len(s) = 0 THEN 0
    ELSE 10 * DecimalValue(SubSeq(s, 1, Len(s) - 1)) + DigitValue(s[Len(s)])

\* number of leading decimal digits of s
RECURSIVE LeadingDigits(_)
LeadingDigits(s) ==
    IF Len(s) = 0 \/ ~IsDigit(s[1]) THEN 0 ELSE 1 + LeadingDigits(Tail(s))

\* parseInt of a text that starts with a decimal digit
parseInt(s) == DecimalValue(SubSeq(s, 1, LeadingDigits(s)))

(* -------------------------- JSON values ------------------------------- *)

JStr(s) == [t |-> "string", chars |-> s]

JNum(n) == [t |-> "number", n |-> n]

JArr(es) == [t |-> "array", e |-> es]

JObj(text, type, tip, ico) ==
    [t |-> "object", CompletionText |-> text, ResultType |-> type,
     ToolTip |-> tip, CustomIcon |-> ico]

JNull == [t |-> "null"]

SyntaxError == [t |-> "SyntaxError"]

\* e[i] of a JavaScript array: undefined past the end
Elem(arr, i) == IF i + 1 <= Len(arr.e) THEN arr.e[i + 1] ELSE Undefined

\* x ?? y
Nullish(x) == x.t \in {"undefined", "null"}

\* !x
Falsy(x) ==
    \/ x.t \in {"undefined", "null"}
    \/ x.t = "string" /\ Len(x.chars) = 0
    \/ x.t = "number" /\ x.n = 0

(* ---------------------------- payload texts ---------------------------- *)

Q == "\""

TextEmpty == <<>>

TextMalformed == <<"{">>

TextNull == <<"n", "u", "l", "l">>

TextEmptyArray == <<"[", "]">>

\* ["a",0]
TextTupleA == <<"[", Q, "a", Q, ",", "0", "]">>

\* [["d",4]]
TextDirs == <<"[", "[", Q, "d", Q, ",", "4", "]", "]">>

\* [["g",2]]
TextCommandG == <<"[", "[", Q, "g", Q, ",", "2", "]", "]">>

\* [["g",2],["g",2]]
TextCommandGG ==
    <<"[", "[", Q, "g", Q, ",", "2", "]", ",", "[", Q, "g", Q, ",", "2", "]", "]">>

\* [["c\\d",4]]
TextBackslashDir == <<"[", "[", Q, "c", "\\", "\\", "d", Q, ",", "4", "]", "]">>

\* [["a;b",0,"t"]]
TextSemi == <<"[", "[", Q, "a", ";", "b", Q, ",", "0", ",", Q, "t", Q, "]", "]">>

\* JSON.parse on the texts the shell side of this model sends; any other
\* text is not JSON and throws
JSONParse(text) ==
    CASE text = TextNull -> JNull
      [] text = TextEmptyArray -> JArr(<< >>)
      [] text = TextTupleA -> JArr(<<JStr(<<"a">>), JNum(0)>>)
      [] text = TextDirs -> JArr(<<JArr(<<JStr(<<"d">>), JNum(4)>>)>>)
      [] text = TextCommandG -> JArr(<<JArr(<<JStr(<<"g">>), JNum(2)>>)>>)
      [] text = TextCommandGG ->
             JArr(<<JArr(<<JStr(<<"g">>), JNum(2)>>), JArr(<<JStr(<<"g">>), JNum(2)>>)>>)
      [] text = TextBackslashDir -> JArr(<<JArr(<<JStr(<<"c", "\\", "d">>), JNum(4)>>)>>)
      [] text = TextSemi ->
             JArr(<<JArr(<<JStr(<<"a", ";", "b">>), JNum(0), JStr(<<"t">>)>>)>>)
      [] OTHER -> SyntaxError

(* ------------------------------ icons ---------------------------------- *)

\* ids of the Codicon registry that the provider can name
Codicon ==
    {"symbolText", "history", "symbolMethod", "symbolFile", "folder",
     "symbolProperty", "symbolVariable", "symbolValue", "symbolNamespace",
     "symbolInterface", "symbolKeyword", "zap"}

pwshTypeToIconMap ==
    [k \in 0..13 |->
        CASE k = 0 -> "symbolText"
          [] k = 1 -> "history"
          [] k = 2 -> "symbolMethod"
          [] k = 3 -> "symbolFile"
          [] k = 4 -> "folder"
          [] k = 5 -> "symbolProperty"
          [] k = 6 -> "symbolMethod"
          [] k = 7 -> "symbolVariable"
          [] k = 8 -> "symbolValue"
          [] k = 9 -> "symbolVariable"
          [] k = 10 -> "symbolNamespace"
          [] k = 11 -> "symbolInterface"
          [] k = 12 -> "symbolKeyword"
          [] k = 13 -> "symbolKeyword"]

\* the text of an icon id, as one token
IconId(customIconId) == customIconId.chars[1]

getIcon(resultType, customIconId) ==
    IF ~Falsy(customIconId)
    THEN IF IconId(customIconId) \in Codicon THEN IconId(customIconId) ELSE "symbolText"
    ELSE IF resultType \in DOMAIN pwshTypeToIconMap THEN pwshTypeToIconMap[resultType]
         ELSE "symbolText"

(* ---------------------------- normalizer ------------------------------- *)

Lower ==
    {"a", "b", "c", "d", "e", "f", "g", "h", "i", "j", "k", "l", "m",
     "n", "o", "p", "q", "r", "s", "t", "u", "v", "w", "x", "y", "z"}

Upper ==
    {"A", "B", "C", "D", "E", "F", "G", "H", "I", "J", "K", "L", "M",
     "N", "O", "P", "Q", "R", "S", "T", "U", "V", "W", "X", "Y", "Z"}

IsAlnum(c) == c \in Lower \/ c \in Upper \/ IsDigit(c)

IsSeparator(c) == c \in {"/", "\\"}

\* label.match(/^[\-+]$/)
IsLocationHistory(label) == label \in {<<"-">>, <<"+">>}

\* label.match(/^\.\.?$/)
IsDotEntry(label) == label \in {<<".">>, <<".", ".">>}

\* label.match(/[\\\/]$/)
EndsWithSeparator(label) == Len(label) > 0 /\ IsSeparator(label[Len(label)])

\* the host default appended whatever the label holds
DetectSeparatorAsDefault(label) == sep

\* label.match(/(?<sep>[\\\/])/)?.groups?.sep ?? sep
DetectSeparator(label) ==
    IF \E i \in 1..Len(label) : IsSeparator(label[i])
    THEN label[CHOOSE i \in 1..Len(label) :
                   IsSeparator(label[i]) /\ \A j \in 1..(i - 1) : ~IsSeparator(label[j])]
    ELSE sep

\* the extension taken to be 1 to 4 characters long
HasExtensionFromOne(text) ==
    \E k \in 1..4 :
        /\ Len(text) >= k + 1
        /\ text[Len(text) - k] = "."
        /\ \A i \in (Len(text) - k + 1)..Len(text) : IsAlnum(text[i])

\* text.match(/\.[a-z0-9]{2,4}$/i)
HasExtension(text) ==
    \E k \in 2..4 :
        /\ Len(text) >= k + 1
        /\ text[Len(text) - k] = "."
        /\ \A i \in (Len(text) - k + 1)..Len(text) : IsAlnum(text[i])

TerminalCompletionItem(label, icon, detail, isFile, isDirectory, isKeyword, replacementIndex, replacementLength) ==
    [label |-> label, icon |-> icon, detail |-> detail, isFile |-> isFile,
     isDirectory |-> isDirectory, isKeyword |-> isKeyword,
     replacementIndex |-> replacementIndex, replacementLength |-> replacementLength]

\* the ResultType the record holds once it has been normalized
ResultTypeAfter(rawCompletion) ==
    IF rawCompletion.ResultType.n = 2 /\ HasExtension(rawCompletion.CompletionText.chars)
    THEN 3 ELSE rawCompletion.ResultType.n

rawCompletionToTerminalCompletionItem(rawCompletion, replacementIndex, replacementLength) ==
    LET text == rawCompletion.CompletionText.chars
        label == IF /\ rawCompletion.ResultType.n = 4
                    /\ ~IsLocationHistory(text)
                    /\ ~IsDotEntry(text)
                    /\ ~EndsWithSeparator(text)
                 THEN Append(text, DetectSeparator(text))
                 ELSE text
        detail == IF Nullish(rawCompletion.ToolTip) THEN label
                  ELSE rawCompletion.ToolTip.chars
        icon == getIcon(rawCompletion.ResultType.n, rawCompletion.CustomIcon)
        type == ResultTypeAfter(rawCompletion)
    IN  TerminalCompletionItem(label, icon, detail, type = 3, type = 4, type = 12,
                               replacementIndex, replacementLength)

(* ------------------------------ decoder -------------------------------- *)

\* a positional tuple read with the tooltip and the icon exchanged
FromTupleIconFirst(e) == JObj(Elem(e, 0), Elem(e, 1), Elem(e, 3), Elem(e, 2))

\* a positional tuple read as a record
FromTuple(e) == JObj(Elem(e, 0), Elem(e, 1), Elem(e, 2), Elem(e, 3))

\* the decoder reading the first tuple only of a sequence of tuples
typedRawCompletionsFirstTuple(rawCompletions) ==
    IF rawCompletions.t # "array" THEN <<rawCompletions>>
    ELSE IF Elem(rawCompletions, 0).t = "string" THEN <<FromTuple(rawCompletions)>>
    ELSE IF Elem(rawCompletions, 0).t = "array" THEN <<FromTuple(rawCompletions.e[1])>>
    ELSE rawCompletions.e

typedRawCompletions(rawCompletions) ==
    IF rawCompletions.t # "array" THEN <<rawCompletions>>
    ELSE IF Elem(rawCompletions, 0).t = "string" THEN <<FromTuple(rawCompletions)>>
    ELSE IF Elem(rawCompletions, 0).t = "array"
         THEN [i \in 1..Len(rawCompletions.e) |-> FromTuple(rawCompletions.e[i])]
    ELSE rawCompletions.e

parseCompletionsFromShell(rawCompletions, replacementIndex, replacementLength) ==
    IF Falsy(rawCompletions) THEN << >>
    ELSE IF rawCompletions.t = "array" /\ Len(rawCompletions.e) = 0 THEN << >>
    ELSE LET typed == typedRawCompletions(rawCompletions)
         IN  [i \in 1..Len(typed) |->
                 rawCompletionToTerminalCompletionItem(typed[i], replacementIndex,
                                                       replacementLength)]

(* --------------------------- wire messages ----------------------------- *)

CmdCompletions == <<"C", "o", "m", "p", "l", "e", "t", "i", "o", "n", "s">>

CmdCompletionsPwshCommands ==
    CmdCompletions \o <<"P", "w", "s", "h", "C", "o", "m", "m", "a", "n", "d", "s">>

\* a sequence of the shell integration that this addon does not know
CmdOther == <<"P">>

RECURSIVE Join(_)
\* the parts of a message, separated by semicolons
Join(parts) ==
    IF Len(parts) = 1 THEN parts[1]
    ELSE parts[1] \o <<SEMI>> \o Join(Tail(parts))

\* the three leading arguments of the Completions messages of this model
FieldTriples ==
    {<<(<<"2">>), (<<"0">>), (<<"2">>)>>,
     <<(<<"1">>), (<<"1", "0">>), (<<"0">>)>>}

CompletionsPayloads == {TextEmpty, TextMalformed, TextDirs, TextSemi}

CommandsPayloads == {TextEmptyArray, TextCommandG, TextMalformed}

CompletionsMessages ==
    {Join(<<CmdCompletions>> \o f \o <<p>>) : f \in FieldTriples, p \in CompletionsPayloads}
        \cup {Join(<<CmdCompletions, (<<"0">>), (<<"1">>)>>)}

CommandsMessages ==
    {Join(<<CmdCompletionsPwshCommands, (<<"0">>), p>>) : p \in CommandsPayloads}
        \cup {CmdCompletionsPwshCommands}

\* the global-commands message that fills the cache
PopulatingMessages == {Join(<<CmdCompletionsPwshCommands, (<<"0">>), TextCommandG>>)}

\* a global-commands message that names one command twice
RepeatingMessages == {Join(<<CmdCompletionsPwshCommands, (<<"0">>), TextCommandGG>>)}

OtherMessages == {Join(<<CmdOther, TextTupleA>>)}

Messages == CompletionsMessages \cup CommandsMessages \cup OtherMessages

(* --------------------------- prompt input ------------------------------ *)

\* a state of the live prompt input model: the cursor is at the end of prefix
PromptInput(prefix, suffix, ghostText) ==
    [value |-> prefix \o suffix \o ghostText, prefix |-> prefix, suffix |-> suffix,
     cursorIndex |-> Len(prefix),
     ghostTextIndex |-> IF Len(ghostText) = 0 THEN -1 ELSE Len(prefix) + Len(suffix)]

\* the empty prompt
NoPromptInput == PromptInput(<< >>, << >>, << >>)

PromptInputs ==
    {PromptInput(<< >>, << >>, << >>),
     PromptInput(<<"a">>, << >>, <<"b">>),
     PromptInput(<<"a", " ">>, <<"c">>, << >>),
     PromptInput(<<"[">>, << >>, << >>)}

(* ------------------------------ state ---------------------------------- *)

VARIABLES
    terminal,                        \* _terminal is set
    oscHandler,                      \* the OSC handler is registered
    promptInputModel,                \* _promptInputModel is set
    currentPromptInputState,
    leadingLineContent,
    cursorIndexDelta,
    isFilteringDirectories,
    pathSeparator,
    mostRecentCompletion,
    completionsResolver,             \* id of the promise the slot resolves, 0 for null
    codeCompletionsRequested,
    gitCompletionsRequested,
    lastUserDataTimestamp,
    lastAcceptedCompletionTimestamp, \* SuggestAddon.lastAcceptedCompletionTimestamp
    cachedPwshCommands,              \* the static Set, in insertion order
    storage,                         \* value of the persisted key
    promises,                        \* the promise of each provideCompletions call:
                                     \* "unissued", "pending" or "resolved"
    call,                            \* the last call and its inputs
    fired,                           \* events and signals fired by the last call, in order
    returned,                        \* what the last call returned
    notified,                        \* the promise the last call resolved, and with what
    batchKind,                       \* how the last call classified its batch: "global",
                                     \* "contextual", or "none" when it classified nothing
    sent,                            \* number of signals of each kind sent so far
    everPopulated,                   \* the cache has held an item
    acceptedCompletion,              \* the candidate SuggestAddon accepted last
    heldRawCompletions,              \* the decoded payload a caller of
                                     \* parseCompletionsFromShell holds
    returnedCompletions,             \* the list parseCompletionsFromShell returned to it
    step,                            \* ChatSetupController._step
    entitlement,                     \* ChatSetupRequests.state.entitlement, which
                                     \* update() keeps equal to context.state.entitlement
    didResolveEntitlements,
    pendingResolveCts,               \* the resolve run whose source is in the field
    tokens,                          \* isCancellationRequested of the token of each run
    setups,                          \* what each setup run awaits
    resolves                         \* what each resolve run awaits

providerVars ==
    <<terminal, oscHandler, promptInputModel, currentPromptInputState, leadingLineContent,
      cursorIndexDelta, isFilteringDirectories, pathSeparator, mostRecentCompletion,
      completionsResolver, codeCompletionsRequested, gitCompletionsRequested,
      lastUserDataTimestamp, lastAcceptedCompletionTimestamp, cachedPwshCommands, storage,
      promises>>

\* what a caller of the exported decoder holds
decoderVars == <<heldRawCompletions, returnedCompletions>>

\* ChatSetupController and ChatSetupRequests
chatVars ==
    <<step, entitlement, didResolveEntitlements, pendingResolveCts, tokens, setups, resolves>>

vars ==
    <<providerVars, call, fired, returned, notified, batchKind, sent, everPopulated,
      acceptedCompletion, decoderVars, chatVars>>

trackerVars ==
    <<currentPromptInputState, leadingLineContent, cursorIndexDelta,
      isFilteringDirectories, pathSeparator, mostRecentCompletion>>

requestVars == <<codeCompletionsRequested, gitCompletionsRequested>>

clockVars == <<lastUserDataTimestamp, lastAcceptedCompletionTimestamp>>

cacheVars == <<cachedPwshCommands, storage>>

lifecycleVars == <<terminal, oscHandler, promptInputModel>>

enableWidget == TRUE

NoNotification == [id |-> 0, result |-> Undefined]

ListResult(items) == [t |-> "list", items |-> items]

issued == Cardinality({i \in DOMAIN promises : promises[i] # "unissued"})

(* ----------------------------- storage --------------------------------- *)

\* JSON.stringify(Array.from(set.values())): the stored text, held as the
\* array it encodes
Stringify(items) == [t |-> "json", items |-> items]

\* a stored text that is not JSON
CorruptConfig == [t |-> "text", chars |-> TextMalformed]

\* JSON.parse(config) returns
Decodable(config) == config.t = "json" \/ JSONParse(config.chars) # SyntaxError

\* the items a stored value decodes to
Parsed(config) == config.items

\* line 114-116: the constructor reads the persisted key
Hydrates(providedPwshCommands, config) ==
    Len(providedPwshCommands) = 0 /\ config.t # "undefined"

\* line 117 throws out of the constructor
ConstructorThrows(providedPwshCommands, config) ==
    Hydrates(providedPwshCommands, config) /\ ~Decodable(config)

\* lines 113-122 left out: the persisted key is not read
HydrateNothing(providedPwshCommands, config) == providedPwshCommands

\* lines 111-122 of the constructor: the static set when the constructor
\* returns or throws; providedPwshCommands is empty for undefined
Hydrate(providedPwshCommands, config) ==
    IF Hydrates(providedPwshCommands, config) /\ Decodable(config)
    THEN providedPwshCommands \o Parsed(config)
    ELSE providedPwshCommands

CommandG == parseCompletionsFromShell(JSONParse(TextCommandG), 0, 0)

\* a set of commands handed to the constructor by its caller
ProvidedX ==
    <<TerminalCompletionItem(<<"x">>, "symbolMethod", <<"x">>, FALSE, FALSE, FALSE, 0, 0)>>

\* the state once the constructor has returned
Constructed(providedPwshCommands, config) ==
    /\ ~ConstructorThrows(providedPwshCommands, config)
    /\ terminal = FALSE
    /\ oscHandler = FALSE
    /\ promptInputModel \in BOOLEAN
    /\ currentPromptInputState = Undefined
    /\ leadingLineContent = Undefined
    /\ cursorIndexDelta = 0
    /\ isFilteringDirectories = FALSE
    /\ pathSeparator = sep
    /\ mostRecentCompletion = Undefined
    /\ completionsResolver = 0
    /\ codeCompletionsRequested = FALSE
    /\ gitCompletionsRequested = FALSE
    /\ lastUserDataTimestamp = 0
    /\ lastAcceptedCompletionTimestamp = 0
    /\ storage = config
    /\ cachedPwshCommands = Hydrate(providedPwshCommands, config)
    /\ promises = [i \in 1..MaxRequests |-> "unissued"]
    /\ call = [op |-> "constructor", provided |-> providedPwshCommands]
    /\ fired = << >>
    /\ returned = "none"
    /\ notified = NoNotification
    /\ batchKind = "none"
    /\ sent = [code |-> 0, git |-> 0, global |-> 0]
    /\ everPopulated = (Len(cachedPwshCommands) > 0)
    /\ acceptedCompletion = Undefined

\* ChatSetupContribution once its three parts are constructed (lines 89-91):
\* the context restored from storage, the controller at its first step, and
\* the requests with the resolve run that their constructor starts awaiting
\* the session lookup
ChatSetupContribution(stored) ==
    /\ step = "Initial"
    /\ entitlement = stored
    /\ didResolveEntitlements = FALSE
    /\ pendingResolveCts = 1
    /\ tokens = [r \in 1..MaxResolves |-> FALSE]
    /\ setups = [r \in 1..MaxRuns |-> "unstarted"]
    /\ resolves = [r \in 1..MaxResolves |-> IF r = 1 THEN "getSessions" ELSE "unstarted"]

\* no caller of the exported decoder holds a payload; the chat setup is as constructed
NothingDecoded ==
    /\ heldRawCompletions = Undefined
    /\ returnedCompletions = << >>
    /\ ChatSetupContribution("Unknown")

\* a provider constructed without a provided set, over an absent or a
\* well-formed persisted key
Init ==
    /\ \E config \in {Undefined, Stringify(CommandG)} : Constructed(<< >>, config)
    /\ NothingDecoded

(* ------------------------ request correlator --------------------------- *)

\* _notifyCompletions without line 260: the slot is not cleared
notifyCompletionsKeepingResolver(result) ==
    IF completionsResolver # 0
    THEN /\ promises' = [promises EXCEPT ![completionsResolver] = "resolved"]
         /\ notified' = [id |-> completionsResolver, result |-> result]
         /\ UNCHANGED completionsResolver
    ELSE /\ notified' = NoNotification
         /\ UNCHANGED <<promises, completionsResolver>>

\* _notifyCompletions
notifyCompletions(result) ==
    IF completionsResolver # 0
    THEN /\ promises' = [promises EXCEPT ![completionsResolver] = "resolved"]
         /\ notified' = [id |-> completionsResolver, result |-> result]
         /\ completionsResolver' = 0
    ELSE /\ notified' = NoNotification
         /\ UNCHANGED <<promises, completionsResolver>>

\* _waitForCompletions: a new promise whose resolve function is put in the slot
waitForCompletions ==
    /\ promises' = [promises EXCEPT ![issued + 1] = "pending"]
    /\ completionsResolver' = issued + 1

\* the gate with >= for >
KeyPressedSinceOrAtAccept(lastUserData, lastAccepted) == lastUserData >= lastAccepted

\* line 288: the gate of the request-contextual-completions signal
KeyPressedSinceAccept(lastUserData, lastAccepted) == lastUserData > lastAccepted

\* line 282 without its condition: the global signal is sent by every call
CacheIsEmptyOrNot(cache) == TRUE

\* line 282: the gate of the request-global-completions signal
CacheIsEmpty(cache) == Len(cache) = 0

\* lines 272-291 with the block of lines 282-284 moved to the top
RequestSignalsGlobalFirst(builtinCompletionsConfig) ==
    (IF CacheIsEmpty(cachedPwshCommands)
     THEN <<"requestGlobalCompletionsSequence">> ELSE << >>)
    \o (IF ~codeCompletionsRequested /\ builtinCompletionsConfig.pwshCode
        THEN <<"requestEnableCodeCompletionsSequence">> ELSE << >>)
    \o (IF ~gitCompletionsRequested /\ builtinCompletionsConfig.pwshGit
        THEN <<"requestEnableGitCompletionsSequence">> ELSE << >>)
    \o (IF KeyPressedSinceAccept(lastUserDataTimestamp, lastAcceptedCompletionTimestamp)
        THEN <<"requestCompletionsSequence", "onDidRequestCompletions">> ELSE << >>)

\* the signals and events one provideCompletions call fires, in order
RequestSignals(builtinCompletionsConfig) ==
    (IF ~codeCompletionsRequested /\ builtinCompletionsConfig.pwshCode
     THEN <<"requestEnableCodeCompletionsSequence">> ELSE << >>)
    \o (IF ~gitCompletionsRequested /\ builtinCompletionsConfig.pwshGit
        THEN <<"requestEnableGitCompletionsSequence">> ELSE << >>)
    \o (IF CacheIsEmpty(cachedPwshCommands)
        THEN <<"requestGlobalCompletionsSequence">> ELSE << >>)
    \o (IF KeyPressedSinceAccept(lastUserDataTimestamp, lastAcceptedCompletionTimestamp)
        THEN <<"requestCompletionsSequence", "onDidRequestCompletions">> ELSE << >>)

\* lines 274 and 278 left out: the flag is not set
EnableNotRecorded(requested, configured) == requested

\* lines 272-279: the flag of an enable signal after a call
EnableRequested(requested, configured) == requested \/ configured

Count(seq, x) == Cardinality({i \in 1..Len(seq) : seq[i] = x})

provideCompletions(builtinCompletionsConfig) ==
    /\ issued < MaxRequests
    /\ fired' = RequestSignals(builtinCompletionsConfig)
    /\ codeCompletionsRequested' =
           EnableRequested(codeCompletionsRequested, builtinCompletionsConfig.pwshCode)
    /\ gitCompletionsRequested' =
           EnableRequested(gitCompletionsRequested, builtinCompletionsConfig.pwshGit)
    /\ waitForCompletions
    /\ sent' = [code |-> sent.code + Count(fired', "requestEnableCodeCompletionsSequence"),
                git |-> sent.git + Count(fired', "requestEnableGitCompletionsSequence"),
                global |-> sent.global + Count(fired', "requestGlobalCompletionsSequence")]
    /\ call' = [op |-> "provideCompletions", config |-> builtinCompletionsConfig]
    /\ returned' = "promise"
    /\ notified' = NoNotification
    /\ batchKind' = "none"
    /\ UNCHANGED <<lifecycleVars, trackerVars, clockVars, cacheVars, everPopulated,
                   acceptedCompletion, decoderVars, chatVars>>

(* ------------------------- Completions handler ------------------------- *)

\* line 197: the text the batch is classified on
LeadingLine(prefix, replacementIndex, replacementLength, delta) ==
    Substring(prefix, replacementIndex, replacementIndex + replacementLength + delta)

\* lines 200-201
isGlobalCommand(leadingLine) ==
    /\ ~Includes(leadingLine, " ")
    /\ (IF Len(leadingLine) = 0 THEN "" ELSE leadingLine[1]) # "["

\* the replacementIndex read one argument too far
ReplacementIndexFromSecondArg(args) == parseInt(args[2])

\* line 205: the argument read as replacementIndex
ReplacementIndexArg(args) == parseInt(args[1])

\* line 206: the argument read as replacementLength
ReplacementLengthArg(args) == parseInt(args[2])

\* line 209
PayloadOf(data, command, args) ==
    Slice(data, Len(command) + Len(args[1]) + Len(args[2]) + Len(args[3]) + 4)

\* line 210 with the decode failure swallowed
RawCompletionsOrNothing(args, payload) ==
    IF Len(args) = 0 \/ Len(payload) = 0 \/ JSONParse(payload) = SyntaxError
    THEN Undefined ELSE JSONParse(payload)

\* line 210
RawCompletionsOf(args, payload) ==
    IF Len(args) = 0 \/ Len(payload) = 0 THEN Undefined ELSE JSONParse(payload)

Every(items, P(_)) == \A i \in 1..Len(items) : P(items[i])

Some(items, P(_)) == \E i \in 1..Len(items) : P(items[i])

IsDirectoryItem(c) == c.isDirectory

\* completions.find(c => c.isDirectory)
FirstDirectory(items) ==
    items[CHOOSE i \in 1..Len(items) :
              items[i].isDirectory /\ \A j \in 1..(i - 1) : ~items[j].isDirectory]

\* lines 174-178 alone: the focus is not looked at
NoActiveContextIgnoringFocus(element, focused) ==
    ~element \/ ~enableWidget \/ ~promptInputModel

\* lines 174-184: the batch is dropped and the request answered with undefined
NoActiveContext(element, focused) ==
    \/ ~element \/ ~enableWidget \/ ~promptInputModel
    \/ ~focused

\* the cached commands appended to every batch, contextual ones included
WithCachedCommandsAlways(global, completions, set) == completions \o set

\* lines 213-215: completions.push(...cachedPwshCommands) for a global batch
WithCachedCommands(global, completions, set) ==
    IF global THEN completions \o set ELSE completions

\* line 214 written the other way round: the batch is added to the set
SetAfterAdd(set, completions) == set \o completions

\* line 214 spreads the set into the list: the set itself is only read
SetAfterSpread(set, completions) == set

\* lines 189-195 without the suffix
PromptInputStateWithoutSuffix(live) ==
    [value |-> live.value, prefix |-> live.prefix, suffix |-> << >>,
     cursorIndex |-> live.cursorIndex, ghostTextIndex |-> live.ghostTextIndex]

\* lines 189-195: the snapshot taken of the prompt input model
PromptInputState(live) ==
    [value |-> live.value, prefix |-> live.prefix, suffix |-> live.suffix,
     cursorIndex |-> live.cursorIndex, ghostTextIndex |-> live.ghostTextIndex]

\* lines 232-236 with an else branch that falls back to the host default
PathSeparatorOrDefault(completions, current) ==
    IF Some(completions, IsDirectoryItem)
    THEN DetectSeparator(FirstDirectory(completions).label)
    ELSE sep

\* lines 231-236: _pathSeparator once the batch has been looked through
PathSeparatorAfter(completions, current) ==
    IF Some(completions, IsDirectoryItem)
    THEN DetectSeparator(FirstDirectory(completions).label)
    ELSE current

\* the failure of lines 209-210 caught, and the request answered with undefined
CompletionsDecodeThrowsAnswered ==
    /\ returned' = "throws"
    /\ notifyCompletions(Undefined)
    /\ UNCHANGED <<cursorIndexDelta, isFilteringDirectories, pathSeparator,
                   mostRecentCompletion, cachedPwshCommands>>

\* lines 209-210 throw (args[n].length of a missing argument, JSON.parse of
\* a text that is not JSON): nothing after them runs
CompletionsDecodeThrows ==
    /\ returned' = "throws"
    /\ notified' = NoNotification
    /\ UNCHANGED <<promises, completionsResolver, cursorIndexDelta,
                   isFilteringDirectories, pathSeparator, mostRecentCompletion,
                   cachedPwshCommands>>

handleCompletionsSequence(data, command, args, element, focused, live) ==
    /\ fired' = <<"onDidReceiveCompletions">>
    /\ IF NoActiveContext(element, focused)
       THEN /\ notifyCompletions(Undefined)
            /\ returned' = "true"
            /\ batchKind' = "none"
            /\ UNCHANGED <<trackerVars, cachedPwshCommands>>
       ELSE LET leadingLine == LeadingLine(live.prefix, 0, live.cursorIndex, cursorIndexDelta)
                global == isGlobalCommand(leadingLine)
                tracked == IF global THEN leadingLine ELSE live.prefix
            IN  /\ currentPromptInputState' = PromptInputState(live)
                /\ leadingLineContent' = JStr(tracked)
                /\ batchKind' = IF global THEN "global" ELSE "contextual"
                /\ IF Len(args) < 3
                   THEN \* args[n].length of a missing argument throws
                        CompletionsDecodeThrows
                   ELSE LET replacementIndex ==
                                IF global THEN 0 ELSE ReplacementIndexArg(args)
                            replacementLength ==
                                IF global THEN live.cursorIndex ELSE ReplacementLengthArg(args)
                            payload == PayloadOf(data, command, args)
                            rawCompletions == RawCompletionsOf(args, payload)
                            decoded == parseCompletionsFromShell(rawCompletions,
                                           replacementIndex, replacementLength)
                            withCache ==
                                WithCachedCommands(global, decoded, cachedPwshCommands)
                            completions ==
                                IF /\ mostRecentCompletion.t # "undefined"
                                   /\ mostRecentCompletion.item.isDirectory
                                   /\ Every(withCache, IsDirectoryItem)
                                THEN Append(withCache, mostRecentCompletion.item)
                                ELSE withCache
                        IN  IF rawCompletions = SyntaxError
                            THEN CompletionsDecodeThrows
                            ELSE /\ cachedPwshCommands' =
                                        IF global
                                        THEN SetAfterSpread(cachedPwshCommands, decoded)
                                        ELSE cachedPwshCommands
                                 /\ mostRecentCompletion' = Undefined
                                 /\ cursorIndexDelta' =
                                        live.cursorIndex - (replacementIndex + replacementLength)
                                 /\ isFilteringDirectories' = Some(completions, IsDirectoryItem)
                                 /\ pathSeparator' =
                                        PathSeparatorAfter(completions, pathSeparator)
                                 /\ notifyCompletions(ListResult(completions))
                                 /\ returned' = "true"
    /\ UNCHANGED <<lifecycleVars, requestVars, clockVars, storage, sent, everPopulated>>

(* ------------------- CompletionsPwshCommands handler ------------------- *)

\* the global-commands handler answering the pending request with undefined
CommandsNotifyingRequest == notifyCompletions(Undefined)

\* lines 240-254: the global-commands handler leaves the resolver slot alone
CommandsNotify ==
    /\ notified' = NoNotification
    /\ UNCHANGED <<promises, completionsResolver>>

\* lines 245-249 without the clear: the batch is added to what is cached
SetAfterAddAll(set, completions) == set \o completions

\* lines 245-249: the set is cleared, then every item of the batch is added;
\* the items are distinct objects, so each one is a new member
SetAfterClearAndAdd(set, completions) == completions

\* line 246 moved before line 242: the set is cleared, then the decode fails
CommandsDecodeThrowsAfterClear ==
    /\ cachedPwshCommands' = << >>
    /\ UNCHANGED storage

\* lines 241-242 throw (type.length of a missing argument, JSON.parse of a
\* text that is not JSON) before the set and the key are touched
CommandsDecodeThrows == UNCHANGED <<cachedPwshCommands, storage>>

handleCompletionsPwshCommandsSequence(data, command, args) ==
    /\ fired' = << >>
    /\ CommandsNotify
    /\ batchKind' = "none"
    /\ LET rawCompletions ==
               IF Len(args) = 0 THEN SyntaxError
               ELSE JSONParse(Slice(data, Len(command) + Len(args[1]) + 2))
       IN  IF rawCompletions = SyntaxError
           THEN /\ returned' = "promise rejected"
                /\ CommandsDecodeThrows
                /\ UNCHANGED everPopulated
           ELSE LET completions == parseCompletionsFromShell(rawCompletions, 0, 0)
                IN  /\ cachedPwshCommands' = SetAfterClearAndAdd(cachedPwshCommands, completions)
                    /\ storage' = Stringify(cachedPwshCommands')
                    /\ everPopulated' = (everPopulated \/ Len(cachedPwshCommands') > 0)
                    /\ returned' = "promise true"
    /\ UNCHANGED <<lifecycleVars, trackerVars, requestVars, clockVars, sent>>

(* ---------------------------- OSC handler ------------------------------ *)

\* the first case taking every token the second case does not take
IsCompletionsOrUnknown(command) == command # CmdCompletionsPwshCommands

\* line 159: case VSCodeSuggestOscPt.Completions
IsCompletions(command) == command = CmdCompletions

handleVSCodeSequence(data, element, focused, live) ==
    /\ oscHandler
    /\ call' = [op |-> "handleVSCodeSequence", data |-> data, element |-> element,
                focused |-> focused,
                \* the prompt input is that of the prompt input model
                live |-> IF promptInputModel THEN live ELSE NoPromptInput]
    /\ UNCHANGED <<acceptedCompletion, decoderVars, chatVars>>
    /\ LET parts == Split(data, SEMI)
           command == parts[1]
           args == Tail(parts)
       IN  IF ~terminal
           THEN /\ returned' = "false"
                /\ fired' = << >>
                /\ notified' = NoNotification
                /\ batchKind' = "none"
                /\ UNCHANGED <<providerVars, sent, everPopulated>>
           ELSE IF IsCompletions(command)
           THEN handleCompletionsSequence(data, command, args, element, focused, live)
           ELSE IF command = CmdCompletionsPwshCommands
           THEN handleCompletionsPwshCommandsSequence(data, command, args)
           ELSE /\ returned' = "false"
                /\ fired' = << >>
                /\ notified' = NoNotification
                /\ batchKind' = "none"
                /\ UNCHANGED <<providerVars, sent, everPopulated>>

(* ------------------------- other operations ---------------------------- *)

\* the constructor of a further provider of the same process: the static
\* members are shared with the provider whose fields are tracked here
constructor(providedPwshCommands) ==
    /\ cachedPwshCommands' = Hydrate(providedPwshCommands, storage)
    /\ everPopulated' = (everPopulated \/ Len(cachedPwshCommands') > 0)
    /\ call' = [op |-> "constructor", provided |-> providedPwshCommands]
    /\ fired' = << >>
    /\ returned' = IF ConstructorThrows(providedPwshCommands, storage) THEN "throws" ELSE "none"
    /\ notified' = NoNotification
    /\ batchKind' = "none"
    /\ UNCHANGED <<lifecycleVars, trackerVars, requestVars, clockVars, storage, promises,
                   completionsResolver, sent, acceptedCompletion, decoderVars, chatVars>>

\* what a call that is not a request and not a message leaves behind
Quiet(op) ==
    /\ call' = [op |-> op]
    /\ fired' = << >>
    /\ returned' = "none"
    /\ notified' = NoNotification
    /\ batchKind' = "none"
    /\ UNCHANGED <<sent, decoderVars, chatVars>>

activate(enabled) ==
    /\ ~terminal
    /\ terminal' = TRUE
    /\ oscHandler' = enabled
    /\ Quiet("activate")
    /\ UNCHANGED <<promptInputModel, trackerVars, requestVars, clockVars, cacheVars,
                   promises, completionsResolver, everPopulated, acceptedCompletion>>

\* the listener of the capability store
onDidChangeCapability(commandDetection) ==
    /\ promptInputModel # commandDetection
    /\ promptInputModel' = commandDetection
    /\ Quiet("onDidChangeCapability")
    /\ UNCHANGED <<terminal, oscHandler, trackerVars, requestVars, clockVars, cacheVars,
                   promises, completionsResolver, everPopulated, acceptedCompletion>>

\* the readings Date.now() can give: at least 1, and no earlier than any
\* reading taken before
Readings == Max(1, Max(lastUserDataTimestamp, lastAcceptedCompletionTimestamp))..MaxTime

\* the xterm.onData listener
onData(dateNow) ==
    /\ terminal
    /\ lastUserDataTimestamp # dateNow
    /\ lastUserDataTimestamp' = dateNow
    /\ Quiet("onData")
    /\ UNCHANGED <<lifecycleVars, trackerVars, requestVars, cacheVars, promises,
                   completionsResolver, lastAcceptedCompletionTimestamp, everPopulated,
                   acceptedCompletion>>

\* SuggestAddon accepts a candidate of its list
acceptSelectedSuggestion(dateNow, completion) ==
    /\ terminal
    /\ lastAcceptedCompletionTimestamp # dateNow
    /\ lastAcceptedCompletionTimestamp' = dateNow
    /\ acceptedCompletion' = [t |-> "item", item |-> completion]
    /\ Quiet("acceptSelectedSuggestion")
    /\ UNCHANGED <<lifecycleVars, trackerVars, requestVars, cacheVars, promises,
                   completionsResolver, lastUserDataTimestamp, everPopulated>>

\* clearSuggestCache without line 133: the persisted key is kept
clearSuggestCacheKeepingStorage ==
    /\ cachedPwshCommands' = << >>
    /\ UNCHANGED storage

\* clearSuggestCache without line 132: the set is kept
clearSuggestCacheKeepingSet ==
    /\ storage' = Undefined
    /\ UNCHANGED cachedPwshCommands

clearSuggestCache ==
    /\ cachedPwshCommands' = << >>
    /\ storage' = Undefined

onDidChangeConfiguration(affectsEnabled) ==
    /\ IF affectsEnabled THEN clearSuggestCache ELSE UNCHANGED cacheVars
    /\ call' = [op |-> "onDidChangeConfiguration", affectsEnabled |-> affectsEnabled]
    /\ fired' = << >>
    /\ returned' = "none"
    /\ notified' = NoNotification
    /\ batchKind' = "none"
    /\ UNCHANGED <<lifecycleVars, trackerVars, requestVars, clockVars, promises,
                   completionsResolver, sent, everPopulated, acceptedCompletion,
                   decoderVars, chatVars>>

BuiltinCompletionsConfigs == [pwshCode : BOOLEAN, pwshGit : BOOLEAN]

\* the Completions messages delivered while the terminal is detached or not
\* focused; the handler reads nothing of them
UnreadMessages ==
    {Join(<<CmdCompletions, (<<"2">>), (<<"0">>), (<<"2">>), p>>) :
         p \in {TextEmpty, TextDirs, TextMalformed}}

\* a message together with what the handler reads of the terminal when it
\* handles it: the element and the focus are read for Completions messages
\* only, the prompt input only when the terminal is attached and focused
Deliveries ==
    {[data |-> data, element |-> TRUE, focused |-> TRUE, live |-> live] :
         data \in CompletionsMessages, live \in PromptInputs}
    \cup {[data |-> data, element |-> element, focused |-> FALSE, live |-> NoPromptInput] :
              data \in UnreadMessages, element \in BOOLEAN}
    \cup {[data |-> data, element |-> FALSE, focused |-> FALSE, live |-> NoPromptInput] :
              data \in CommandsMessages \cup RepeatingMessages \cup OtherMessages}

\* the deliveries of the specification of all operations: one argument
\* triple, one prompt input
CoreDeliveries ==
    {d \in Deliveries :
        /\ d.data \in CompletionsMessages =>
               \E p \in CompletionsPayloads :
                   d.data = Join(<<CmdCompletions, (<<"2">>), (<<"0">>), (<<"2">>), p>>)
        /\ d.focused => d.live = PromptInput(<<"a", " ">>, <<"c">>, << >>)
        /\ d.data \notin RepeatingMessages}

Lifecycle ==
    \/ \E enabled \in BOOLEAN : activate(enabled)
    \/ \E commandDetection \in BOOLEAN : onDidChangeCapability(commandDetection)

Clock ==
    \/ \E dateNow \in Readings : onData(dateNow)
    \/ \E dateNow \in Readings : acceptSelectedSuggestion(dateNow, CommandG[1])

Configuration == \E affectsEnabled \in BOOLEAN : onDidChangeConfiguration(affectsEnabled)

Requests(configs) == \E config \in configs : provideCompletions(config)

Inbound(deliveries) ==
    \E delivery \in deliveries :
        handleVSCodeSequence(delivery.data, delivery.element, delivery.focused, delivery.live)

\* every operation of the provider
Next ==
    \/ Lifecycle
    \/ Clock
    \/ Configuration
    \/ Requests({[pwshCode |-> TRUE, pwshGit |-> FALSE]})
    \/ Inbound(CoreDeliveries)

Spec == Init /\ [][Next]_vars

\* the handling of batches: every Completions message under every prompt
\* input, requests issued one at a time and without builtin completions, no
\* keystrokes
NextBatches ==
    \/ Lifecycle
    \/ completionsResolver = 0 /\ Requests({[pwshCode |-> FALSE, pwshGit |-> FALSE]})
    \/ Inbound({d \in Deliveries : d.data \in CompletionsMessages \cup PopulatingMessages})

SpecBatches == Init /\ [][NextBatches]_vars

\* the gating of the trigger signals: requests under every configuration,
\* keystrokes, acceptances, global-commands messages and cache clears
NextSignals ==
    \/ \E enabled \in BOOLEAN : activate(enabled)
    \/ Clock
    \/ Configuration
    \/ Requests(BuiltinCompletionsConfigs)
    \/ Inbound({d \in Deliveries : d.data \in CommandsMessages})

SpecSignals == Init /\ [][NextSignals]_vars

\* what a caller hands to the constructor: nothing, or a set of its own
ProvidedSets == {<< >>, ProvidedX}

\* what the persisted key can hold when a provider is constructed
StoredValues == {Undefined, Stringify(CommandG), CorruptConfig}

\* the messages and the batches of the specification of the cache: every
\* global-commands message, and one global batch
CacheDeliveries ==
    {d \in Deliveries :
        \/ d.data \in CommandsMessages \cup RepeatingMessages
        \/ /\ d.data = Join(<<CmdCompletions, (<<"2">>), (<<"0">>), (<<"2">>), TextDirs>>)
           /\ d.focused
           /\ d.live = PromptInput(<<"a">>, << >>, <<"b">>)}

InitCache ==
    /\ \E providedPwshCommands \in ProvidedSets, config \in StoredValues :
           Constructed(providedPwshCommands, config)
    /\ NothingDecoded

\* the cache over the life of a process: providers constructed with and
\* without a provided set over every persisted value, global-commands
\* messages, cache clears, and requests issued one at a time
NextCache ==
    \/ \E providedPwshCommands \in ProvidedSets : constructor(providedPwshCommands)
    \/ \E enabled \in BOOLEAN : activate(enabled)
    \/ Configuration
    \/ completionsResolver = 0 /\ Requests({[pwshCode |-> FALSE, pwshGit |-> FALSE]})
    \/ Inbound(CacheDeliveries)

SpecCache == InitCache /\ [][NextCache]_vars

\* the cache of providers that are never handed a set: further providers
\* constructed over what the earlier ones persisted, global-commands
\* messages, cache clears, and requests issued one at a time
NextPersisted ==
    \/ constructor(<< >>)
    \/ \E enabled \in BOOLEAN : activate(enabled)
    \/ Configuration
    \/ completionsResolver = 0 /\ Requests({[pwshCode |-> FALSE, pwshGit |-> FALSE]})
    \/ Inbound(CacheDeliveries)

SpecPersisted == Init /\ [][NextPersisted]_vars

\* the candidates SuggestAddon accepts: a directory and a command
AcceptedCompletions == {parseCompletionsFromShell(JSONParse(TextDirs), 0, 0)[1], CommandG[1]}

\* focused batches of directories and of other items, under prompt inputs
\* that hold a separator
TrackerDeliveries ==
    {[data |-> Join(<<CmdCompletions, (<<"2">>), (<<"0">>), (<<"2">>), p>>),
      element |-> TRUE, focused |-> TRUE, live |-> live] :
         p \in {TextDirs, TextBackslashDir, TextSemi},
         live \in {PromptInput(<<"c", "\\">>, << >>, << >>),
                   PromptInput(<<"c", "/">>, << >>, << >>),
                   PromptInput(<<"a", " ">>, <<"c">>, << >>)}}

\* the tracking of directories: candidates accepted by SuggestAddon, requests
\* issued one at a time, focused batches with and without directories
NextTracker ==
    \/ \E enabled \in BOOLEAN : activate(enabled)
    \/ \E dateNow \in Readings, completion \in AcceptedCompletions :
           acceptSelectedSuggestion(dateNow, completion)
    \/ completionsResolver = 0 /\ Requests({[pwshCode |-> FALSE, pwshGit |-> FALSE]})
    \/ Inbound(TrackerDeliveries)

SpecTracker == Init /\ [][NextTracker]_vars

\* what the tracked separator is exposed to: focused batches with and
\* without directories under a global and a contextual prompt, a batch of a
\* directory dropped for an unfocused or unattached terminal, and a
\* global-commands message that puts a directory in the cache
SeparatorDeliveries ==
    {d \in TrackerDeliveries : d.live.prefix # <<"c", "/">>}
        \cup {[data |-> Join(<<CmdCompletions, (<<"2">>), (<<"0">>), (<<"2">>), TextDirs>>),
               element |-> element, focused |-> FALSE, live |-> NoPromptInput] :
                  element \in BOOLEAN}
        \cup {[data |-> Join(<<CmdCompletionsPwshCommands, (<<"0">>), TextBackslashDir>>),
               element |-> FALSE, focused |-> FALSE, live |-> NoPromptInput]}

\* the tracking of the separator: requests issued one at a time, cache
\* clears, and the messages above
NextSeparator ==
    \/ \E enabled \in BOOLEAN : activate(enabled)
    \/ onDidChangeConfiguration(TRUE)
    \/ completionsResolver = 0 /\ Requests({[pwshCode |-> FALSE, pwshGit |-> FALSE]})
    \/ Inbound(SeparatorDeliveries)

SpecSeparator == Init /\ [][NextSeparator]_vars

(* ------------------------- the exported decoder ----------------------- *)

\* the record a raw completion object is once it has been normalized
RawCompletionAfter(rawCompletion) ==
    [rawCompletion EXCEPT !.ResultType = JNum(ResultTypeAfter(rawCompletion))]

\* the value the caller holds once parseCompletionsFromShell has returned:
\* the records of the object forms are the caller's own objects, those
\* built from tuples are new ones
RawCompletionsAfter(raw) ==
    IF Falsy(raw) THEN raw
    ELSE IF raw.t # "array" THEN RawCompletionAfter(raw)
    ELSE IF Len(raw.e) = 0 \/ Elem(raw, 0).t \in {"string", "array"} THEN raw
    ELSE JArr([i \in 1..Len(raw.e) |-> RawCompletionAfter(raw.e[i])])

\* a call of parseCompletionsFromShell on the payload the caller holds
callParseCompletionsFromShell(replacementIndex, replacementLength) ==
    /\ returnedCompletions' =
           parseCompletionsFromShell(heldRawCompletions, replacementIndex, replacementLength)
    /\ heldRawCompletions' = RawCompletionsAfter(heldRawCompletions)
    /\ call' = [op |-> "parseCompletionsFromShell", rawCompletions |-> heldRawCompletions,
                replacementIndex |-> replacementIndex,
                replacementLength |-> replacementLength]
    /\ fired' = << >>
    /\ returned' = "list"
    /\ notified' = NoNotification
    /\ batchKind' = "none"
    /\ UNCHANGED <<providerVars, sent, everPopulated, acceptedCompletion, chatVars>>

\* the completion texts of the decoder's inputs
CompletionTexts ==
    {<<"a">>, <<"a", ".", "e", "x", "e">>, <<"a", ".", "E", "1">>, <<"a", ".", "b">>,
     <<"a", ".", "a", "b", "c", "d", "e">>, <<"d">>, <<"d", "/">>, <<"c", "\\", "d">>,
     <<"d", "\\">>, <<".">>, <<".", ".">>, <<"-">>, <<"+">>}

\* method, file, directory, the two keyword codes, and a code pwsh does not have
ResultTypes == {2, 3, 4, 12, 13, 14}

ToolTips == {Undefined, JStr(<<"t">>)}

\* no icon, a registered one, one that is not registered, and the empty id
CustomIcons == {Undefined, JStr(<<"zap">>), JStr(<<"nope">>), JStr(<< >>)}

\* what pwsh says of one completion
LogicalCompletions ==
    [text : CompletionTexts, kind : ResultTypes, tip : ToolTips, ico : CustomIcons]

\* PwshCompletion
ObjectForm(c) == JObj(JStr(c.text), JNum(c.kind), c.tip, c.ico)

\* CompressedPwshCompletion: the optional positions are left out from the
\* right, a missing tooltip before an icon is null
TupleForm(c) ==
    JArr(<<JStr(c.text), JNum(c.kind)>>
         \o (IF c.ico.t # "undefined"
             THEN <<(IF c.tip.t = "undefined" THEN JNull ELSE c.tip), c.ico>>
             ELSE IF c.tip.t # "undefined" THEN <<c.tip>> ELSE << >>))

\* the completions that the batches of several records are made of
BatchCompletions ==
    {[text |-> <<"a", ".", "e", "x", "e">>, kind |-> 2, tip |-> Undefined, ico |-> Undefined],
     [text |-> <<"c", "\\", "d">>, kind |-> 4, tip |-> JStr(<<"t">>), ico |-> Undefined],
     [text |-> <<"a">>, kind |-> 13, tip |-> Undefined, ico |-> JStr(<<"zap">>)]}

LogicalBatches ==
    {<<c>> : c \in BatchCompletions} \cup {<<c, d>> : c \in BatchCompletions, d \in BatchCompletions}

ObjectsForm(batch) == JArr([i \in 1..Len(batch) |-> ObjectForm(batch[i])])

TuplesForm(batch) == JArr([i \in 1..Len(batch) |-> TupleForm(batch[i])])

\* the values parseCompletionsFromShell is given
RawInputs ==
    {Undefined, JNull, JArr(<< >>)}
        \cup {ObjectForm(c) : c \in LogicalCompletions}
        \cup {TupleForm(c) : c \in LogicalCompletions}
        \cup {ObjectsForm(batch) : batch \in LogicalBatches}
        \cup {TuplesForm(batch) : batch \in LogicalBatches}

\* replacementIndex and replacementLength
Spans == {<<0, 0>>, <<1, 2>>}

InitDecoder ==
    /\ Constructed(<< >>, Undefined)
    /\ heldRawCompletions \in RawInputs
    /\ returnedCompletions = << >>
    /\ ChatSetupContribution("Unknown")

NextDecoder == \E span \in Spans : callParseCompletionsFromShell(span[1], span[2])

\* the decoder and the normalizer, called on every input, more than once on
\* the same one
SpecDecoder == InitDecoder /\ [][NextDecoder]_vars

(* ------------------------ chat setup controller ------------------------ *)

ChatEntitlement == {"Unknown", "Unresolved", "Available", "Unavailable", "Limited", "Pro"}

\* everything of the completion provider but the record of the last call
pwshVars ==
    <<providerVars, fired, returned, notified, batchKind, sent, everPopulated,
      acceptedCompletion, decoderVars>>

resolveVars == <<didResolveEntitlements, pendingResolveCts, tokens, resolves>>

\* the run that starts next: the first one not started yet
FirstUnstarted(runs) ==
    CHOOSE r \in DOMAIN runs : runs[r] = "unstarted" /\ \A q \in 1..(r - 1) : runs[q] # "unstarted"

\* setStep: the event it fires sets button.enabled to step === Initial
setStep(newStep) == step' = newStep

\* lines 685-689: what install awaits first
InstallAwaits(e) ==
    IF e \notin {"Limited", "Pro", "Unavailable"} THEN "signUpLimited" ELSE "install"

\* a click on the setup button, which is enabled in the first step only:
\* setup and doSetup up to their first await
setup ==
    /\ step = "Initial"
    /\ \E r \in DOMAIN setups : setups[r] = "unstarted"
    /\ LET r == FirstUnstarted(setups)
       IN  /\ IF entitlement = "Unknown"
              THEN /\ setStep("SigningIn")
                   /\ setups' = [setups EXCEPT ![r] = "createSession"]
              ELSE /\ UNCHANGED step
                   /\ setups' = [setups EXCEPT ![r] = "getSessions"]
           /\ call' = [op |-> "setup", run |-> r]
    /\ UNCHANGED <<entitlement, resolveVars, pwshVars>>

\* signIn once createSession has settled; without a session doSetup returns
\* through its finally block
signInAfterCreateSession(r, session) ==
    /\ setups[r] = "createSession"
    /\ IF session
       THEN /\ setups' = [setups EXCEPT ![r] = "forceResolveEntitlement"]
            /\ UNCHANGED step
       ELSE /\ setups' = [setups EXCEPT ![r] = "done"]
            /\ setStep("Initial")
    /\ call' = [op |-> "signIn", run |-> r, session |-> session]
    /\ UNCHANGED <<entitlement, resolveVars, pwshVars>>

\* what forceResolveEntitlement can come to: an entitlement, or an exception
\* that signIn swallows
ForcedEntitlements == (ChatEntitlement \ {"Unknown"}) \cup {"throws"}

\* doSetup once signIn has returned a session: forceResolveEntitlement has
\* updated the state under CancellationToken.None, then the install starts
doSetupAfterSignIn(r, resolved) ==
    /\ setups[r] = "forceResolveEntitlement"
    /\ entitlement' = IF resolved = "throws" THEN entitlement ELSE resolved
    /\ didResolveEntitlements' = (didResolveEntitlements \/ resolved # "throws")
    /\ setStep("Installing")
    /\ setups' = [setups EXCEPT ![r] = InstallAwaits(entitlement')]
    /\ call' = [op |-> "forceResolveEntitlement", run |-> r, resolved |-> resolved]
    /\ UNCHANGED <<pendingResolveCts, tokens, resolves, pwshVars>>

\* doSetup once getSessions has settled, for a user whose entitlement was known
doSetupAfterGetSessions(r, session) ==
    /\ setups[r] = "getSessions"
    /\ IF session
       THEN /\ setStep("Installing")
            /\ setups' = [setups EXCEPT ![r] = InstallAwaits(entitlement)]
       ELSE /\ setStep("Initial")
            /\ setups' = [setups EXCEPT ![r] = "done"]
    /\ call' = [op |-> "getSessions", run |-> r, session |-> session]
    /\ UNCHANGED <<entitlement, resolveVars, pwshVars>>

\* install once signUpLimited has settled
installAfterSignUpLimited(r, subscribed) ==
    /\ setups[r] = "signUpLimited"
    /\ entitlement' = IF subscribed THEN "Limited" ELSE entitlement
    /\ setups' = [setups EXCEPT ![r] = "install"]
    /\ call' = [op |-> "signUpLimited", run |-> r, subscribed |-> subscribed]
    /\ UNCHANGED <<step, resolveVars, pwshVars>>

\* doSetup once install has returned: the finally block
doSetupAfterInstall(r) ==
    /\ setups[r] = "install"
    /\ setStep("Initial")
    /\ setups' = [setups EXCEPT ![r] = "done"]
    /\ call' = [op |-> "install", run |-> r]
    /\ UNCHANGED <<entitlement, resolveVars, pwshVars>>

(* ------------------------- chat setup requests ------------------------- *)

\* the token ignored
isCancellationRequestedNever(r) == FALSE

\* token.isCancellationRequested of the token of run r
isCancellationRequested(r) == tokens[r]

\* the listeners of the authentication service: resolve up to its first await
resolve ==
    /\ \E r \in DOMAIN resolves : resolves[r] = "unstarted"
    /\ LET r == FirstUnstarted(resolves)
       IN  /\ tokens' = [tokens EXCEPT ![pendingResolveCts] = TRUE]
           /\ pendingResolveCts' = r
           /\ resolves' = [resolves EXCEPT ![r] = "getSessions"]
           /\ call' = [op |-> "resolve", run |-> r, updated |-> FALSE]
    /\ UNCHANGED <<step, entitlement, didResolveEntitlements, setups, pwshVars>>

\* resolve once the session lookup has settled
resolveAfterSessions(r, session) ==
    /\ resolves[r] = "getSessions"
    /\ IF isCancellationRequested(r)
       THEN /\ resolves' = [resolves EXCEPT ![r] = "done"]
            /\ call' = [op |-> "findMatchingProviderSession", run |-> r, updated |-> FALSE]
            /\ UNCHANGED <<entitlement, didResolveEntitlements>>
       ELSE /\ entitlement' =
                   IF ~session THEN "Unknown"
                   ELSE IF entitlement = "Unknown" THEN "Unresolved" ELSE entitlement
            /\ didResolveEntitlements' = (session /\ didResolveEntitlements)
            /\ resolves' =
                   [resolves EXCEPT
                        ![r] = IF session /\ ~didResolveEntitlements THEN "request" ELSE "done"]
            /\ call' = [op |-> "findMatchingProviderSession", run |-> r,
                        updated |-> (~session \/ entitlement = "Unknown")]
    /\ UNCHANGED <<step, pendingResolveCts, tokens, setups, pwshVars>>

\* resolveEntitlement once the entitlement request has settled: without a
\* response, or with a status other than 200, the entitlement is Unresolved
resolveEntitlementAfterRequest(r, response) ==
    /\ resolves[r] = "request"
    /\ IF isCancellationRequested(r)
       THEN /\ resolves' = [resolves EXCEPT ![r] = "done"]
            /\ call' = [op |-> "request", run |-> r, updated |-> FALSE]
            /\ UNCHANGED <<entitlement, didResolveEntitlements>>
       ELSE IF ~response
       THEN /\ resolves' = [resolves EXCEPT ![r] = "done"]
            /\ didResolveEntitlements' = TRUE
            /\ entitlement' = "Unresolved"
            /\ call' = [op |-> "request", run |-> r, updated |-> TRUE]
       ELSE /\ resolves' = [resolves EXCEPT ![r] = "asText"]
            /\ call' = [op |-> "request", run |-> r, updated |-> FALSE]
            /\ UNCHANGED <<entitlement, didResolveEntitlements>>
    /\ UNCHANGED <<step, pendingResolveCts, tokens, setups, pwshVars>>

\* what the text of a response comes to: Unresolved for no content or a text
\* that is not JSON, one of the four entitlements, or an exception
ResolvedEntitlements == {"Unresolved", "Available", "Unavailable", "Limited", "Pro", "throws"}

\* resolveEntitlement once the text of the response has been read
resolveEntitlementAfterText(r, resolved) ==
    /\ resolves[r] = "asText"
    /\ resolves' = [resolves EXCEPT ![r] = "done"]
    /\ IF isCancellationRequested(r) \/ resolved = "throws"
       THEN /\ call' = [op |-> "asText", run |-> r, updated |-> FALSE]
            /\ UNCHANGED <<entitlement, didResolveEntitlements>>
       ELSE /\ didResolveEntitlements' = TRUE
            /\ entitlement' = resolved
            /\ call' = [op |-> "asText", run |-> r, updated |-> TRUE]
    /\ UNCHANGED <<step, pendingResolveCts, tokens, setups, pwshVars>>

\* the entitlement the context was stored with
StoredEntitlements == ChatEntitlement

InitChat ==
    /\ Constructed(<< >>, Undefined)
    /\ ~promptInputModel
    /\ heldRawCompletions = Undefined
    /\ returnedCompletions = << >>
    /\ \E stored \in StoredEntitlements : ChatSetupContribution(stored)

\* the chat setup: clicks on the setup button, the events that start a
\* resolve run, and the continuations of both in any order
NextChat ==
    \/ setup
    \/ \E r \in 1..MaxRuns, session \in BOOLEAN : signInAfterCreateSession(r, session)
    \/ \E r \in 1..MaxRuns, resolved \in ForcedEntitlements : doSetupAfterSignIn(r, resolved)
    \/ \E r \in 1..MaxRuns, session \in BOOLEAN : doSetupAfterGetSessions(r, session)
    \/ \E r \in 1..MaxRuns, subscribed \in BOOLEAN : installAfterSignUpLimited(r, subscribed)
    \/ \E r \in 1..MaxRuns : doSetupAfterInstall(r)
    \/ resolve
    \/ \E r \in 1..MaxResolves, session \in BOOLEAN : resolveAfterSessions(r, session)
    \/ \E r \in 1..MaxResolves, response \in BOOLEAN : resolveEntitlementAfterRequest(r, response)
    \/ \E r \in 1..MaxResolves, resolved \in ResolvedEntitlements :
           resolveEntitlementAfterText(r, resolved)

SpecChat == InitChat /\ [][NextChat]_vars

(* ------------------------------ claims --------------------------------- *)

Pending == {i \in DOMAIN promises : promises[i] = "pending"}

\* the step is a provideCompletions call
ProvideStep == call'.op = "provideCompletions" /\ promises' # promises

\* the last call handled a Completions message and returned true
CompletionsHandled == call.op = "handleVSCodeSequence" /\ returned = "true"

ArgsOf(data) == Tail(Split(data, SEMI))

RECURSIVE TextAfterSemicolons(_, _)
\* the text after the n-th semicolon of s
TextAfterSemicolons(s, n) ==
    IF n = 0 THEN s
    ELSE IF IndexOf(s, SEMI) = 0 THEN << >>
    ELSE TextAfterSemicolons(SubSeq(s, IndexOf(s, SEMI) + 1, Len(s)), n - 1)

Fired(x) == \E i \in 1..Len(fired) : fired[i] = x

\* C1: a provideCompletions call made while a resolver is stored leaves that
\* resolver in the slot.
C1_ResolverKept ==
    [][(ProvideStep /\ completionsResolver # 0)
           => completionsResolver' = completionsResolver]_vars

\* C2: once a Completions batch has been handled, no promise issued before
\* it is still pending.
C2_AllResolvedByBatch == CompletionsHandled => Pending = {}

\* C3: a Completions batch handled while a resolver is stored resolves the
\* promise of that resolver and empties the slot; one handled while the slot
\* is empty resolves nothing and leaves it empty.
C3_BatchResolvesAndIdles ==
    [][(call'.op = "handleVSCodeSequence" /\ returned' = "true")
           => /\ completionsResolver' = 0
              /\ completionsResolver # 0
                     => /\ notified'.id = completionsResolver
                        /\ promises' = [promises EXCEPT ![completionsResolver] = "resolved"]
              /\ completionsResolver = 0
                     => /\ notified' = NoNotification
                        /\ promises' = promises]_vars

\* a batch has just resolved the pending request and the correlator is Idle
C3_Witness ==
    /\ CompletionsHandled
    /\ notified.id # 0
    /\ promises[notified.id] = "resolved"
    /\ completionsResolver = 0

\* C4: a request is resolved with undefined exactly when the batch arrives
\* with the terminal detached, the widget disabled, no prompt input model or
\* the terminal unfocused, and with a list otherwise.
C4_UndefinedIffNoContext ==
    notified.id # 0 =>
        /\ notified.result.t \in {"undefined", "list"}
        /\ notified.result.t = "undefined"
               <=> (~call.element \/ ~enableWidget \/ ~promptInputModel \/ ~call.focused)

\* an attached, unfocused terminal: the request was resolved with undefined
C4_Witness ==
    /\ notified.id # 0
    /\ notified.result.t = "undefined"
    /\ call.element /\ promptInputModel /\ ~call.focused

\* C5: a pending promise becomes resolved only in a step that handles a
\* Completions message.
C5_SingleWriter ==
    [][(\E i \in DOMAIN promises : promises[i] = "pending" /\ promises'[i] # "pending")
           => /\ call'.op = "handleVSCodeSequence"
              /\ Split(call'.data, SEMI)[1] = CmdCompletions
              /\ returned' = "true"
              /\ notified'.id = completionsResolver]_vars

\* a global-commands message was handled while a request was pending, and
\* the request is still pending
C5_Witness ==
    /\ call.op = "handleVSCodeSequence"
    /\ returned = "promise true"
    /\ completionsResolver # 0
    /\ promises[completionsResolver] = "pending"

\* C6 as claimed: the global signal is sent once only, by a request that
\* finds the cache empty before the cache was ever populated.
C6_GlobalSignalOnce ==
    [][(ProvideStep /\ sent'.global > sent.global)
           => /\ sent.global = 0
              /\ ~everPopulated
              /\ Len(cachedPwshCommands) = 0]_vars

\* C6 as amended: a request sends the global signal, once, if and only if
\* it finds the cache empty.
C6_GlobalSignalIffEmpty ==
    [][ProvideStep
           => /\ Count(fired', "requestGlobalCompletionsSequence") =
                     (IF Len(cachedPwshCommands) = 0 THEN 1 ELSE 0)
              /\ sent'.global =
                     sent.global + Count(fired', "requestGlobalCompletionsSequence")]_vars

\* a second request found the cache still empty and sent the signal again
C6_Witness ==
    /\ call.op = "provideCompletions"
    /\ Fired("requestGlobalCompletionsSequence")
    /\ sent.global = 2

\* C7: each enable signal is sent at most once, by the first request made
\* with its flag on.
C7_EnableSignalsOnce ==
    /\ [](sent.code <= 1 /\ sent.git <= 1)
    /\ [][ProvideStep
              => /\ sent'.code > sent.code <=> (call'.config.pwshCode /\ sent.code = 0)
                 /\ sent'.git > sent.git <=> (call'.config.pwshGit /\ sent.git = 0)]_vars

\* a later request with both flags on sent neither signal again
C7_Witness ==
    /\ call.op = "provideCompletions"
    /\ call.config.pwshCode /\ call.config.pwshGit
    /\ sent.code = 1 /\ sent.git = 1
    /\ ~Fired("requestEnableCodeCompletionsSequence")
    /\ ~Fired("requestEnableGitCompletionsSequence")

\* C8: a request sends the contextual signal and fires the requested event
\* if and only if the last keystroke is strictly later than the last
\* acceptance; an acceptance leaves the last keystroke no later than itself.
C8_ContextualIffKeystroke ==
    /\ [][ProvideStep
              => /\ Count(fired', "requestCompletionsSequence") =
                        (IF lastUserDataTimestamp > lastAcceptedCompletionTimestamp
                         THEN 1 ELSE 0)
                 /\ Count(fired', "onDidRequestCompletions") =
                        Count(fired', "requestCompletionsSequence")]_vars
    /\ [][lastAcceptedCompletionTimestamp' # lastAcceptedCompletionTimestamp
              => lastUserDataTimestamp' <= lastAcceptedCompletionTimestamp']_vars

\* a request made after an acceptance, with no later keystroke, sent nothing
C8_Witness ==
    /\ call.op = "provideCompletions"
    /\ lastAcceptedCompletionTimestamp > 0
    /\ lastUserDataTimestamp > 0
    /\ ~Fired("requestCompletionsSequence")

\* C9: a batch handled with a focused terminal is classified global if and
\* only if the prompt prefix has no space and does not start with '['.
C9_ClassifiedByPrefix ==
    batchKind # "none"
        => (batchKind = "global" <=> isGlobalCommand(currentPromptInputState.prefix))

\* C10 as claimed: the items of a contextual batch carry the second and the
\* third argument of the message as replacementIndex and replacementLength.
C10_SpanFromSecondAndThirdArgs ==
    (batchKind = "contextual" /\ notified.id # 0)
        => \A i \in 1..Len(notified.result.items) :
               /\ notified.result.items[i].replacementIndex = parseInt(ArgsOf(call.data)[2])
               /\ notified.result.items[i].replacementLength = parseInt(ArgsOf(call.data)[3])

\* C10 as amended: the items of a contextual batch are those decoded from
\* the text after the fourth semicolon, and carry the first and the second
\* argument of the message as replacementIndex and replacementLength.
C10_SpanFromFirstAndSecondArgs ==
    (batchKind = "contextual" /\ notified.id # 0)
        => /\ \A i \in 1..Len(notified.result.items) :
                  /\ notified.result.items[i].replacementIndex =
                         parseInt(ArgsOf(call.data)[1])
                  /\ notified.result.items[i].replacementLength =
                         parseInt(ArgsOf(call.data)[2])
           /\ LET payload == TextAfterSemicolons(call.data, 4)
              IN  notified.result.items =
                      parseCompletionsFromShell(
                          IF Len(payload) = 0 THEN Undefined ELSE JSONParse(payload),
                          parseInt(ArgsOf(call.data)[1]), parseInt(ArgsOf(call.data)[2]))

\* a contextual batch resolved a request with an item whose span is not the
\* cursor-derived one
C10_Witness ==
    /\ batchKind = "contextual"
    /\ notified.id # 0
    /\ Len(notified.result.items) > 0
    /\ notified.result.items[1].replacementIndex = 1
    /\ notified.result.items[1].replacementLength = 10
    /\ currentPromptInputState.cursorIndex = 2

\* the command token of a message
TokenOf(data) == Split(data, SEMI)[1]

\* the items a payload text decodes to under a replacement span
DecodedItems(payload, replacementIndex, replacementLength) ==
    parseCompletionsFromShell(IF Len(payload) = 0 THEN Undefined ELSE JSONParse(payload),
                              replacementIndex, replacementLength)

Labels(items) == {items[i].label : i \in 1..Len(items)}

\* C11: the list a global batch resolves its request with is the decoded
\* items in wire order followed by every item of the cache at that moment;
\* the list of a contextual batch is the decoded items alone.
C11_GlobalAppendsCache ==
    [][(call'.op = "handleVSCodeSequence" /\ batchKind' # "none" /\ notified'.id # 0)
           => LET payload == TextAfterSemicolons(call'.data, 4)
                  args == ArgsOf(call'.data)
              IN  IF batchKind' = "global"
                  THEN notified'.result.items =
                           DecodedItems(payload, 0, currentPromptInputState'.cursorIndex)
                               \o cachedPwshCommands
                  ELSE notified'.result.items =
                           DecodedItems(payload, parseInt(args[1]), parseInt(args[2]))]_vars

\* a global batch of one directory resolved its request with that directory
\* followed by the one cached command
C11_Witness ==
    /\ batchKind = "global"
    /\ notified.id # 0
    /\ Len(cachedPwshCommands) = 1
    /\ Len(notified.result.items) = 2
    /\ notified.result.items[1].isDirectory
    /\ notified.result.items[2] = cachedPwshCommands[1]

\* C12: a CompletionsPwshCommands message whose payload decodes leaves the
\* cache holding exactly the normalized items of the message and the
\* persisted key holding their serialization, and is reported handled.
C12_CommandsReplaceCache ==
    [][(/\ call'.op = "handleVSCodeSequence"
        /\ TokenOf(call'.data) = CmdCompletionsPwshCommands
        /\ JSONParse(TextAfterSemicolons(call'.data, 2)) # SyntaxError)
           => /\ cachedPwshCommands' =
                     parseCompletionsFromShell(
                         JSONParse(TextAfterSemicolons(call'.data, 2)), 0, 0)
              /\ storage' = Stringify(cachedPwshCommands')
              /\ returned' = "promise true"]_vars

\* an empty batch was handled after the cache had held a command: the cache
\* is empty and the persisted key holds the empty list
C12_Witness ==
    /\ call.op = "handleVSCodeSequence"
    /\ TokenOf(call.data) = CmdCompletionsPwshCommands
    /\ returned = "promise true"
    /\ everPopulated
    /\ cachedPwshCommands = << >>
    /\ storage = Stringify(<< >>)

\* C13: a provideCompletions call and the handling of a Completions message
\* leave the cache and the persisted key as they were.
C13_CompletionsOnlyReadCache ==
    [][(\/ call'.op = "provideCompletions"
        \/ call'.op = "handleVSCodeSequence" /\ TokenOf(call'.data) = CmdCompletions)
           => UNCHANGED cacheVars]_vars

\* a global batch was augmented from a cache that still holds its command
\* and still agrees with the persisted key
C13_Witness ==
    /\ call.op = "handleVSCodeSequence"
    /\ batchKind = "global"
    /\ notified.id # 0
    /\ Len(notified.result.items) > Len(cachedPwshCommands)
    /\ cachedPwshCommands = CommandG
    /\ storage = Stringify(CommandG)

\* C14: a clear empties the cache and removes the persisted key, and a
\* provider constructed without a provided set while the key is absent
\* starts with an empty cache.
C14_ClearThenHydrateEmpty ==
    /\ [][(call'.op = "onDidChangeConfiguration" /\ call'.affectsEnabled)
              => /\ cachedPwshCommands' = << >>
                 /\ storage' = Undefined
                 /\ Hydrate(<< >>, storage') = << >>]_vars
    /\ [][(call'.op = "constructor" /\ call'.provided = << >> /\ storage = Undefined)
              => cachedPwshCommands' = << >>]_vars

\* a provider was constructed without a provided set over an absent key,
\* after the cache had held a command: its cache is empty
C14_Witness ==
    /\ call.op = "constructor"
    /\ call.provided = << >>
    /\ returned = "none"
    /\ everPopulated
    /\ storage = Undefined
    /\ cachedPwshCommands = << >>

\* C15: the construction of a provider over a persisted value that cannot be
\* decoded completes, with an empty cache.
C15_HydrationNonFatal ==
    (call.op = "constructor" /\ Hydrates(call.provided, storage) /\ ~Decodable(storage))
        => (returned = "none" /\ cachedPwshCommands = << >>)

\* C16: the cache holds at most one item per label.
C16_OneItemPerLabel ==
    \A i, j \in 1..Len(cachedPwshCommands) :
        cachedPwshCommands[i].label = cachedPwshCommands[j].label => i = j

\* C17: the construction of a further provider removes no label from the
\* cache.
C17_ConstructionKeepsCache ==
    [][call'.op = "constructor"
           => Labels(cachedPwshCommands) \subseteq Labels(cachedPwshCommands')]_vars

\* C18: a configuration change that affects the suggest-enabled setting
\* empties the cache and removes the persisted key; any other configuration
\* change leaves both as they were.
C18_ClearedOnEnabledChange ==
    [][call'.op = "onDidChangeConfiguration"
           => IF call'.affectsEnabled
              THEN cachedPwshCommands' = << >> /\ storage' = Undefined
              ELSE UNCHANGED cacheVars]_vars

\* the setting changed while a request was pending and after the cache had
\* held a command: the cache and the persisted key are empty
C18_Witness ==
    /\ call.op = "onDidChangeConfiguration"
    /\ call.affectsEnabled
    /\ everPopulated
    /\ completionsResolver # 0
    /\ cachedPwshCommands = << >>
    /\ storage = Undefined

\* C19: a message whose token is neither Completions nor
\* CompletionsPwshCommands is answered with false, fires no event and
\* changes no field of the provider, the cache or the persisted key.
C19_UnknownTokenUnhandled ==
    [][(/\ call'.op = "handleVSCodeSequence"
        /\ TokenOf(call'.data) \notin {CmdCompletions, CmdCompletionsPwshCommands})
           => /\ returned' = "false"
              /\ fired' = << >>
              /\ notified' = NoNotification
              /\ UNCHANGED providerVars]_vars

\* an unknown message was answered with false while a request was pending
\* and the cache held a command
C19_Witness ==
    /\ call.op = "handleVSCodeSequence"
    /\ TokenOf(call.data) = CmdOther
    /\ returned = "false"
    /\ completionsResolver # 0
    /\ promises[completionsResolver] = "pending"
    /\ Len(cachedPwshCommands) > 0

\* the payload of a Completions or CompletionsPwshCommands message is there
\* and is not JSON
MalformedPayload(data) ==
    \/ /\ TokenOf(data) = CmdCompletions
       /\ Len(TextAfterSemicolons(data, 4)) > 0
       /\ JSONParse(TextAfterSemicolons(data, 4)) = SyntaxError
    \/ /\ TokenOf(data) = CmdCompletionsPwshCommands
       /\ JSONParse(TextAfterSemicolons(data, 2)) = SyntaxError

\* the handler threw, or returned a promise that rejects
Failed == returned \in {"throws", "promise rejected"}

\* the batch of the last call was dropped without being decoded
Dropped == ~call.element \/ ~enableWidget \/ ~promptInputModel \/ ~call.focused

\* C20 as claimed: every message with a malformed payload fails in the
\* hands of the caller of the handler.
C20_MalformedAlwaysFails ==
    (call.op = "handleVSCodeSequence" /\ MalformedPayload(call.data)) => Failed

\* C20 as amended: a CompletionsPwshCommands message with a malformed
\* payload always fails; a Completions message with a malformed payload
\* fails when its batch is decoded, and is reported handled, its request
\* answered with undefined, when the batch is dropped undecoded.
C20_MalformedFailsWhenDecoded ==
    (call.op = "handleVSCodeSequence" /\ MalformedPayload(call.data))
        => IF TokenOf(call.data) = CmdCompletions /\ Dropped
           THEN returned = "true" /\ notified.result = Undefined
           ELSE Failed /\ notified = NoNotification

\* a Completions message with a malformed payload threw while a request
\* was pending
C20_Witness ==
    /\ call.op = "handleVSCodeSequence"
    /\ TokenOf(call.data) = CmdCompletions
    /\ MalformedPayload(call.data)
    /\ returned = "throws"
    /\ completionsResolver # 0
    /\ promises[completionsResolver] = "pending"

\* the last call was a call of the exported decoder
Decoded == call.op = "parseCompletionsFromShell"

\* the completion a raw record stands for
LogicalOfRecord(r) ==
    [text |-> r.CompletionText.chars, kind |-> r.ResultType.n,
     tip |-> IF Nullish(r.ToolTip) THEN Undefined ELSE r.ToolTip, ico |-> r.CustomIcon]

\* the completion a positional tuple stands for
LogicalOfTuple(e) ==
    [text |-> e.e[1].chars, kind |-> e.e[2].n,
     tip |-> IF Len(e.e) >= 3 /\ ~Nullish(e.e[3]) THEN e.e[3] ELSE Undefined,
     ico |-> IF Len(e.e) >= 4 THEN e.e[4] ELSE Undefined]

\* the same completions in the other wire format
OtherForm(raw) ==
    IF Nullish(raw) THEN raw
    ELSE IF raw.t = "object" THEN TupleForm(LogicalOfRecord(raw))
    ELSE IF Len(raw.e) = 0 THEN raw
    ELSE IF raw.e[1].t = "string" THEN ObjectForm(LogicalOfTuple(raw))
    ELSE IF raw.e[1].t = "array"
         THEN ObjectsForm([i \in 1..Len(raw.e) |-> LogicalOfTuple(raw.e[i])])
    ELSE TuplesForm([i \in 1..Len(raw.e) |-> LogicalOfRecord(raw.e[i])])

\* the completions a decoder input stands for, in wire order
LogicalOf(raw) ==
    IF Nullish(raw) THEN << >>
    ELSE IF raw.t = "object" THEN <<LogicalOfRecord(raw)>>
    ELSE IF Len(raw.e) = 0 THEN << >>
    ELSE IF raw.e[1].t = "string" THEN <<LogicalOfTuple(raw)>>
    ELSE IF raw.e[1].t = "array" THEN [i \in 1..Len(raw.e) |-> LogicalOfTuple(raw.e[i])]
    ELSE [i \in 1..Len(raw.e) |-> LogicalOfRecord(raw.e[i])]

\* C21: the list decoded from a value is the list decoded from the same
\* completions in the other wire format, under the same span.
C21_FormsAgree ==
    Decoded
        => returnedCompletions =
               parseCompletionsFromShell(OtherForm(call.rawCompletions),
                                         call.replacementIndex, call.replacementLength)

\* a sequence of two tuples was decoded to an executable and a directory
C21_Witness ==
    /\ Decoded
    /\ call.rawCompletions.t = "array"
    /\ Len(call.rawCompletions.e) = 2
    /\ call.rawCompletions.e[1].t = "array"
    /\ Len(returnedCompletions) = 2
    /\ returnedCompletions[1].isFile
    /\ returnedCompletions[2].isDirectory

\* the record at positions 0..3 of a tuple
RecordAt(e) ==
    [t |-> "object", CompletionText |-> Elem(e, 0), ResultType |-> Elem(e, 1),
     ToolTip |-> Elem(e, 2), CustomIcon |-> Elem(e, 3)]

\* the item of a record under the span of the last call
ItemOf(r) ==
    rawCompletionToTerminalCompletionItem(r, call.replacementIndex, call.replacementLength)

\* C22: the decoder goes by the shape of its input: nothing for an absent
\* value or an empty sequence, one item for a value that is not a sequence,
\* one item from positions 0..3 of a sequence that starts with a string, one
\* item per tuple of a sequence of sequences, one item per record otherwise.
C22_ShapeDirected ==
    Decoded =>
        LET raw == call.rawCompletions
            out == returnedCompletions
        IN  IF Nullish(raw) THEN out = << >>
            ELSE IF raw.t # "array" THEN out = <<ItemOf(raw)>>
            ELSE IF Len(raw.e) = 0 THEN out = << >>
            ELSE IF raw.e[1].t = "string" THEN out = <<ItemOf(RecordAt(raw))>>
            ELSE /\ Len(out) = Len(raw.e)
                 /\ \A i \in 1..Len(raw.e) :
                        out[i] = IF raw.e[1].t = "array" THEN ItemOf(RecordAt(raw.e[i]))
                                 ELSE ItemOf(raw.e[i])

\* a flat tuple of four positions was decoded to one item with its icon
C22_Witness ==
    /\ Decoded
    /\ call.rawCompletions.t = "array"
    /\ Len(call.rawCompletions.e) = 4
    /\ call.rawCompletions.e[1].t = "string"
    /\ Len(returnedCompletions) = 1
    /\ returnedCompletions[1].icon = "zap"

\* C23: a call of the decoder leaves the raw records it was given as they
\* were.
C23_RawRecordsUnchanged == Decoded => heldRawCompletions = call.rawCompletions

\* the icon id of a record is there and is registered
CustomIconResolves(c) ==
    c.ico.t = "string" /\ Len(c.ico.chars) > 0 /\ c.ico.chars[1] \in Codicon

\* C24: the icon of an item is the custom icon when its id is there and is
\* registered, and otherwise the icon the table has for the kind, or the
\* generic one when the table has none.
C24_IconSelection ==
    Decoded =>
        \A i \in 1..Len(returnedCompletions) :
            LET c == LogicalOf(call.rawCompletions)[i]
            IN  returnedCompletions[i].icon =
                    IF CustomIconResolves(c) THEN c.ico.chars[1]
                    ELSE IF c.kind \in 0..13 THEN pwshTypeToIconMap[c.kind]
                    ELSE "symbolText"

\* text ends in a dot and 2 to 4 letters or digits
DotExtension(text) ==
    \E n \in {2, 3, 4} :
        /\ Len(text) > n
        /\ text[Len(text) - n] = "."
        /\ \A j \in 1..n : text[Len(text) - n + j] \in Lower \cup Upper \cup {Digits[d] : d \in 1..10}

\* C25: isFile says the kind is file, after the reclassification of
\* executables; isDirectory that it is directory; isKeyword that it is one of
\* the keyword codes 12 and 13; at most one of the three is true.
C25_Flags ==
    Decoded =>
        \A i \in 1..Len(returnedCompletions) :
            LET c == LogicalOf(call.rawCompletions)[i]
                item == returnedCompletions[i]
            IN  /\ item.isFile = (c.kind = 3 \/ (c.kind = 2 /\ DotExtension(c.text)))
                /\ item.isDirectory = (c.kind = 4)
                /\ item.isKeyword = (c.kind \in {12, 13})
                /\ Cardinality({f \in {"isFile", "isDirectory", "isKeyword"} : item[f]}) <= 1

\* C26: a record of kind 2 whose text ends in an extension becomes a file
\* that is no directory and has the icon of kind 2; one without an extension
\* is no file.
C26_ExecutablesAreFiles ==
    Decoded =>
        \A i \in 1..Len(returnedCompletions) :
            LET c == LogicalOf(call.rawCompletions)[i]
                item == returnedCompletions[i]
            IN  c.kind = 2 =>
                    IF DotExtension(c.text)
                    THEN /\ item.isFile
                         /\ ~item.isDirectory
                         /\ item.icon = getIcon(2, c.ico)
                         /\ Falsy(c.ico) => item.icon = "symbolMethod"
                    ELSE ~item.isFile

\* an executable without a custom icon became a file with the method icon
C26_Witness ==
    /\ Decoded
    /\ Len(returnedCompletions) = 1
    /\ LogicalOf(call.rawCompletions)[1].kind = 2
    /\ returnedCompletions[1].label = <<"a", ".", "E", "1">>
    /\ returnedCompletions[1].isFile
    /\ returnedCompletions[1].icon = "symbolMethod"

\* the label of a directory whose text is given
DirectoryLabel(text) ==
    IF \/ text[Len(text)] \in {"/", "\\"}
       \/ text \in {<<".">>, <<".", ".">>, <<"-">>, <<"+">>}
    THEN text
    ELSE IF \E j \in 1..Len(text) : text[j] \in {"/", "\\"}
    THEN Append(text, text[CHOOSE j \in 1..Len(text) :
                               /\ text[j] \in {"/", "\\"}
                               /\ \A k \in 1..(j - 1) : text[k] \notin {"/", "\\"}])
    ELSE Append(text, sep)

\* C27: only the label of a directory differs from its text; it is the text
\* followed by one separator, the first one of the text or the default one,
\* unless the text ends in a separator or is '.', '..', '-' or '+'; the label
\* of a directory is its own label.
C27_DirectorySuffix ==
    Decoded =>
        \A i \in 1..Len(returnedCompletions) :
            LET c == LogicalOf(call.rawCompletions)[i]
                item == returnedCompletions[i]
            IN  /\ c.kind # 4 => item.label = c.text
                /\ c.kind = 4 => /\ item.label = DirectoryLabel(c.text)
                                 /\ ItemOf(ObjectForm([c EXCEPT !.text = item.label])).label
                                        = item.label

\* a directory whose text holds a backslash had a backslash appended
C27_Witness ==
    /\ Decoded
    /\ Len(returnedCompletions) = 1
    /\ LogicalOf(call.rawCompletions)[1].kind = 4
    /\ LogicalOf(call.rawCompletions)[1].text = <<"c", "\\", "d">>
    /\ returnedCompletions[1].label = <<"c", "\\", "d", "\\">>

\* the list of a resolved batch before anything is carried over into it
BatchBeforeCarryover ==
    LET payload == TextAfterSemicolons(call'.data, 4)
        args == ArgsOf(call'.data)
    IN  IF batchKind' = "global"
        THEN DecodedItems(payload, 0, currentPromptInputState'.cursorIndex)
                 \o cachedPwshCommands
        ELSE DecodedItems(payload, parseInt(args[1]), parseInt(args[2]))

\* C28: a focused batch of directories only, handled right after a
\* directory was accepted, is resolved with the accepted candidate appended.
C28_DirectoryCarriedOver ==
    [][(/\ call.op = "acceptSelectedSuggestion"
        /\ acceptedCompletion.item.isDirectory
        /\ call'.op = "handleVSCodeSequence"
        /\ batchKind' # "none"
        /\ notified'.id # 0
        /\ \A i \in 1..Len(BatchBeforeCarryover) : BatchBeforeCarryover[i].isDirectory)
           => notified'.result.items = Append(BatchBeforeCarryover, acceptedCompletion.item)]_vars

\* C29: after a resolved batch with a directory item, the tracked separator
\* is the first separator of the label of the first directory item (the
\* default one if it has none) and the tracked leading-line text holds no
\* other separator.
C29_SeparatorTracked ==
    (call.op = "handleVSCodeSequence" /\ batchKind # "none" /\ notified.id # 0
         /\ \E i \in 1..Len(notified.result.items) : notified.result.items[i].isDirectory)
        => LET items == notified.result.items
               first == CHOOSE i \in 1..Len(items) :
                            items[i].isDirectory /\ \A j \in 1..(i - 1) : ~items[j].isDirectory
               label == items[first].label
           IN  /\ pathSeparator =
                      (IF \E j \in 1..Len(label) : label[j] \in {"/", "\\"}
                       THEN label[CHOOSE j \in 1..Len(label) :
                                      /\ label[j] \in {"/", "\\"}
                                      /\ \A k \in 1..(j - 1) : label[k] \notin {"/", "\\"}]
                       ELSE sep)
               /\ \A j \in 1..Len(leadingLineContent.chars) :
                      leadingLineContent.chars[j] \in {"/", "\\"}
                          => leadingLineContent.chars[j] = pathSeparator

\* the five fields of a prompt input state
SameInput(a, b) ==
    /\ a.value = b.value
    /\ a.prefix = b.prefix
    /\ a.suffix = b.suffix
    /\ a.cursorIndex = b.cursorIndex
    /\ a.ghostTextIndex = b.ghostTextIndex

\* C30 as claimed: after any Completions message the snapshot is the live
\* prompt input.
C30_SnapshotAlwaysRefreshed ==
    (call.op = "handleVSCodeSequence" /\ TokenOf(call.data) = CmdCompletions)
        => (currentPromptInputState # Undefined
                /\ SameInput(currentPromptInputState, call.live))

\* C30 as amended: a Completions message handled with the terminal attached
\* and focused and a prompt input model leaves the snapshot equal to the
\* live prompt input; one that is dropped leaves the snapshot as it was.
C30_SnapshotRefreshedWhenShown ==
    [][(call'.op = "handleVSCodeSequence" /\ TokenOf(call'.data) = CmdCompletions)
           => IF ~call'.element \/ ~enableWidget \/ ~promptInputModel \/ ~call'.focused
              THEN UNCHANGED currentPromptInputState
              ELSE SameInput(currentPromptInputState', call'.live)]_vars

\* a batch was dropped for want of focus and the snapshot is still the one
\* of an earlier batch, not the live prompt input
C30_Witness ==
    /\ call.op = "handleVSCodeSequence"
    /\ TokenOf(call.data) = CmdCompletions
    /\ ~call.focused
    /\ currentPromptInputState # Undefined
    /\ currentPromptInputState.prefix # call.live.prefix

\* the trigger signals, in the order of the statements that send them
SignalOrder ==
    <<"requestEnableCodeCompletionsSequence", "requestEnableGitCompletionsSequence",
      "requestGlobalCompletionsSequence", "requestCompletionsSequence">>

IsSignal(x) == \E i \in 1..Len(SignalOrder) : SignalOrder[i] = x

C31_SilentWitness ==
    /\ call.op = "provideCompletions"
    /\ fired = << >>
    /\ completionsResolver # 0
    /\ promises[completionsResolver] = "pending"

\* C32: every item of the list a batch resolves its request with carries the
\* span of the batch: 0 and the cursor index for a global batch, the span the
\* shell sent for a contextual one.
C32_ItemsCarryBatchSpan ==
    (call.op = "handleVSCodeSequence" /\ batchKind # "none" /\ notified.id # 0)
        => \A i \in 1..Len(notified.result.items) :
               IF batchKind = "global"
               THEN /\ notified.result.items[i].replacementIndex = 0
                    /\ notified.result.items[i].replacementLength =
                           currentPromptInputState.cursorIndex
               ELSE /\ notified.result.items[i].replacementIndex =
                           parseInt(ArgsOf(call.data)[1])
                    /\ notified.result.items[i].replacementLength =
                           parseInt(ArgsOf(call.data)[2])

\* the list the persisted key holds, the empty list when the key is absent
PersistedItems == IF storage.t = "undefined" THEN << >> ELSE Parsed(storage)

LabelList(items) == [i \in 1..Len(items) |-> items[i].label]

\* C33: when no provider is handed a set at construction, the labels of the
\* cache are, in every state, the labels of the persisted list, an absent
\* key counting as the empty list.
C33_CacheAgreesWithStorage == LabelList(cachedPwshCommands) = LabelList(PersistedItems)

\* a further provider was constructed over the two commands that a
\* global-commands message had persisted, and holds both
C33_Witness ==
    /\ call.op = "constructor"
    /\ returned = "none"
    /\ Len(cachedPwshCommands) = 2
    /\ storage = Stringify(cachedPwshCommands)

\* a Completions message that cannot be decoded: fewer than three arguments
\* before the payload, or a payload that is not JSON
Undecodable(data) == Len(ArgsOf(data)) < 3 \/ MalformedPayload(data)

\* C34: a Completions message that cannot be decoded, handled with the
\* terminal attached and focused while a request is awaited, fires the
\* received event and overwrites the prompt snapshot but resolves nothing:
\* the request stays pending with its resolver in the slot; a pending
\* request is resolved only by a batch that is dropped or can be decoded.
C34_UndecodableLeavesPending ==
    /\ [][(/\ call'.op = "handleVSCodeSequence"
           /\ TokenOf(call'.data) = CmdCompletions
           /\ Undecodable(call'.data)
           /\ terminal /\ call'.element /\ call'.focused /\ promptInputModel
           /\ completionsResolver # 0)
              => /\ returned' = "throws"
                 /\ fired' = <<"onDidReceiveCompletions">>
                 /\ currentPromptInputState' = PromptInputState(call'.live)
                 /\ notified' = NoNotification
                 /\ completionsResolver' = completionsResolver
                 /\ promises' = promises
                 /\ promises'[completionsResolver'] = "pending"]_vars
    /\ [][(\E i \in DOMAIN promises : promises[i] = "pending" /\ promises'[i] = "resolved")
              => /\ call'.op = "handleVSCodeSequence"
                 /\ TokenOf(call'.data) = CmdCompletions
                 /\ \/ ~call'.element \/ ~call'.focused \/ ~promptInputModel
                    \/ ~Undecodable(call'.data)]_vars

\* a message with two arguments threw in the handler: the snapshot is that
\* of the live prompt, and the request is still pending
C34_Witness ==
    /\ call.op = "handleVSCodeSequence"
    /\ Len(ArgsOf(call.data)) < 3
    /\ returned = "throws"
    /\ fired = <<"onDidReceiveCompletions">>
    /\ currentPromptInputState = PromptInputState(call.live)
    /\ Len(call.live.prefix) > 0
    /\ completionsResolver # 0
    /\ promises[completionsResolver] = "pending"

\* a malformed payload threw in the handler while a request was pending
C34_MalformedWitness ==
    /\ call.op = "handleVSCodeSequence"
    /\ MalformedPayload(call.data)
    /\ returned = "throws"
    /\ completionsResolver # 0
    /\ promises[completionsResolver] = "pending"
    /\ currentPromptInputState = PromptInputState(call.live)

\* C35: a CompletionsPwshCommands message that cannot be decoded (no
\* batch-type argument, or a payload that is not JSON) is rejected and
\* leaves the cache and the persisted key exactly as they were.
C35_FailedCommandsKeepCache ==
    [][(/\ call'.op = "handleVSCodeSequence"
        /\ TokenOf(call'.data) = CmdCompletionsPwshCommands
        /\ (Len(ArgsOf(call'.data)) = 0 \/ MalformedPayload(call'.data))
        /\ terminal)
           => /\ returned' = "promise rejected"
              /\ cachedPwshCommands' = cachedPwshCommands
              /\ storage' = storage]_vars

\* a global-commands message with a malformed payload was rejected while
\* the cache held a command: the cache and the persisted key still hold it
C35_Witness ==
    /\ call.op = "handleVSCodeSequence"
    /\ TokenOf(call.data) = CmdCompletionsPwshCommands
    /\ MalformedPayload(call.data)
    /\ returned = "promise rejected"
    /\ Len(cachedPwshCommands) > 0
    /\ storage = Stringify(cachedPwshCommands)

\* a global-commands message without a batch-type argument was rejected
\* while the cache held a command
C35_NoTypeWitness ==
    /\ call.op = "handleVSCodeSequence"
    /\ call.data = CmdCompletionsPwshCommands
    /\ returned = "promise rejected"
    /\ Len(cachedPwshCommands) > 0

\* the list the batch of a step is turned into: the decoded items, followed
\* by the cached commands when the batch is a global one
ResultOfStep ==
    DecodedItems(TextAfterSemicolons(call'.data, 4), 0, 0)
        \o (IF batchKind' = "global" THEN cachedPwshCommands ELSE << >>)

\* C36: the tracked path separator changes only in a step that handles a
\* Completions batch with the terminal attached and focused and whose
\* resulting list holds a directory, and then becomes the separator of the
\* first directory of that list; every other step leaves it as it was.
C36_SeparatorOnlyByDirectoryBatch ==
    [][pathSeparator' # pathSeparator
           => /\ call'.op = "handleVSCodeSequence"
              /\ TokenOf(call'.data) = CmdCompletions
              /\ call'.element /\ call'.focused /\ promptInputModel
              /\ returned' = "true"
              /\ Some(ResultOfStep, IsDirectoryItem)
              /\ pathSeparator' = DetectSeparator(FirstDirectory(ResultOfStep).label)]_vars

\* a focused batch without a directory was handled after a directory batch
\* had set the separator to the backslash: the separator is still the backslash
C36_Witness ==
    /\ call.op = "handleVSCodeSequence"
    /\ TokenOf(call.data) = CmdCompletions
    /\ call.focused
    /\ returned = "true"
    /\ batchKind # "none"
    /\ ~isFilteringDirectories
    /\ pathSeparator = "\\"

\* a global batch that holds no directory of its own set the separator to
\* that of a directory of the cache
C36_CachedDirectoryWitness ==
    /\ call.op = "handleVSCodeSequence"
    /\ batchKind = "global"
    /\ TextAfterSemicolons(call.data, 4) = TextSemi
    /\ isFilteringDirectories
    /\ pathSeparator = "\\"

\* a setup run has started and has not returned
InProgress(r) == setups[r] \notin {"unstarted", "done"}

\* every setup run ends with the step at Initial
SetupEndsInitial ==
    [][\A r \in DOMAIN setups :
           (setups[r] # "done" /\ setups'[r] = "done") => step' = "Initial"]_vars

\* the step moves Initial -> SigningIn -> Installing -> Initial, skipping
\* SigningIn or Installing but never going back, and to SigningIn only when
\* the entitlement is Unknown
StepOrder ==
    [][step' # step
           => /\ <<step, step'>> \in
                     {<<"Initial", "SigningIn">>, <<"Initial", "Installing">>,
                      <<"SigningIn", "Installing">>, <<"SigningIn", "Initial">>,
                      <<"Installing", "Initial">>}
              /\ step' = "SigningIn" => entitlement = "Unknown"]_vars

\* the step is Initial only when no setup run is in progress
InitialOnlyWhenIdle == step = "Initial" => \A r \in DOMAIN setups : ~InProgress(r)

\* C37: every setup run ends with the step back at Initial; the step only
\* moves Initial -> SigningIn (when the entitlement is Unknown) ->
\* Installing -> Initial, never Installing -> SigningIn; and the step is
\* Initial only when no run is in progress.
C37_StepFollowsRuns == SetupEndsInitial /\ StepOrder /\ []InitialOnlyWhenIdle

\* the step is Initial while a setup run is installing
C37_InitialWhileInstalling ==
    /\ step = "Initial"
    /\ \E r \in DOMAIN setups : setups[r] = "install"

\* the continuations of a resolve run
ResolveContinuations == {"findMatchingProviderSession", "request", "asText"}

\* C38: a resolve run that has been superseded by a later resolve() never
\* updates the entitlement state and never changes the did-resolve flag in
\* what it still runs: every continuation of a resolve run that does either
\* belongs to the run started last.
C38_SupersededNeverWrites ==
    [][(/\ call'.op \in ResolveContinuations
        /\ (call'.updated \/ didResolveEntitlements' # didResolveEntitlements))
           => /\ call'.run = pendingResolveCts
              /\ ~tokens[call'.run]]_vars

\* a superseded run came back from its entitlement request after the later
\* run had resolved the entitlement: it wrote nothing
C38_Witness ==
    /\ call.op = "request"
    /\ call.run # pendingResolveCts
    /\ tokens[call.run]
    /\ ~call.updated
    /\ resolves[call.run] = "done"
    /\ resolves[pendingResolveCts] = "done"
    /\ didResolveEntitlements

====
